---- MODULE Spec2Model ----
(***************************************************************************)
(* WASAText persistence layer (service/database) and the HTTP handlers     *)
(* that drive it (service/api).  The store is a set of SQLite tables; each *)
(* SQL statement is one atomic step, a database/sql transaction buffers    *)
(* its writes until Commit, and every HTTP request runs in its own         *)
(* goroutine, so statements of different requests interleave freely.       *)
(***************************************************************************)
EXTENDS Integers, FiniteSets, Sequences, TLC

(* ---------------------------------------------------------------- bounds *)
\* uuid.NewV4 never repeats: ids are drawn from counters, capped here.
MaxConvs == 3
MaxGroups == 2
MaxMsgs == 2
\* The clock stops at MaxClock.
MaxClock == 2

\* Request slots (concurrently running handler goroutines) and user ids.
Procs == {"p1", "p2"}
UserIds == {"u1", "u2", "u3"}
Names == [u1 |-> "Maria", u2 |-> "Luigi", u3 |-> "Anna"]

\* SQL NULL in an id or time column.
NULL == 0

VARIABLES
    users,                      \* table users: rows [id, name]
    groups,                     \* table groups: rows [id, name]
    group_members,              \* table group_members: rows [group_id, user_id]
    conversations,              \* table conversations: rows [id, is_group, group_id]
    conversation_participants,  \* rows [conversation_id, user_id, last_read_time]
    messages,                   \* rows [id, conversation_id, sender_id, content, photo, timestamp, status, reply_to]
    comments,                   \* table comments: rows [message_id, user_id, emoticon]
    nextConv, nextGroup, nextMsg,   \* next fresh uuid of each kind
    pc,                         \* per request slot: the statement it executes next
    req,                        \* per request slot: the handler's arguments and locals
    tx,                         \* per request slot: rows written inside an open *sql.Tx
    resp,                       \* the response the last step sent, NoResp if it sent none
    directIds,                  \* log of StartConversation answers: <<{a, b}, id>>
    clock,                      \* the wall clock, as read by time.Now and CURRENT_TIMESTAMP
    goroutines                  \* message ids with a spawned, not yet run, status update

tables == <<users, groups, group_members, conversations,
            conversation_participants, messages, comments>>
counters == <<nextConv, nextGroup, nextMsg, clock>>
vars == <<users, groups, group_members, conversations, conversation_participants,
          messages, comments, nextConv, nextGroup, nextMsg, pc, req, tx, resp,
          directIds, clock, goroutines>>

(* --------------------------------------------------------------- helpers *)
UserRow(u) == [id |-> u, name |-> Names[u]]
UserExists(u) == \E r \in users : r.id = u

\* (mutant of ConvRow) the conversation row is written without its group_id.
ConvRowNoGroup(c, isGroup, g) == [id |-> c, is_group |-> isGroup, group_id |-> NULL]

ConvRow(c, isGroup, g) == [id |-> c, is_group |-> isGroup, group_id |-> g]
PartRow(c, u) == [conversation_id |-> c, user_id |-> u, last_read_time |-> NULL]

\* SELECT COUNT(*) FROM conversation_participants WHERE conversation_id = c AND user_id = u
IsParticipant(c, u) ==
    \E r \in conversation_participants : r.conversation_id = c /\ r.user_id = u

Participants(c) ==
    {r.user_id : r \in {x \in conversation_participants : x.conversation_id = c}}

NoTx == [groups |-> {}, conversations |-> {}, group_members |-> {},
         conversation_participants |-> {}]
NoReq == [op |-> "none"]
NoResp == [op |-> "none"]

\* The handler of slot p answers `r` and the slot becomes free.
Reply(p, r) ==
    /\ resp' = r
    /\ pc' = [pc EXCEPT ![p] = "idle"]
    /\ req' = [req EXCEPT ![p] = NoReq]

\* The handler of slot p goes on to its next statement; nothing is answered yet.
Goto(p, label) ==
    /\ pc' = [pc EXCEPT ![p] = label]
    /\ resp' = NoResp

\* (mutant of Rollback) the deferred call commits what was written so far.
RollbackCommits(written) == written

\* defer tx.Rollback() on an error return: the rows of the transaction that
\* become visible, which is none of them.
Rollback(written) == {}

\* The transaction of slot p ends by the deferred Rollback.
Abort(p) ==
    /\ groups' = groups \cup Rollback(tx[p].groups)
    /\ conversations' = conversations \cup Rollback(tx[p].conversations)
    /\ group_members' = group_members \cup Rollback(tx[p].group_members)
    /\ conversation_participants' =
           conversation_participants \cup Rollback(tx[p].conversation_participants)
    /\ tx' = [tx EXCEPT ![p] = NoTx]
    /\ UNCHANGED <<users, messages, comments>>

(* ------------------------------------------- direct conversations         *)
\* (mutant of DirectMatches) the join condition on the second participant is lost.
DirectMatchesNoOther(a, b) ==
    {c \in conversations : c.is_group = FALSE /\ IsParticipant(c.id, a)}

\* The rows the SELECT of GetOrCreateDirectConversation returns for (a, b).
DirectMatches(a, b) ==
    {c \in conversations :
        /\ c.is_group = FALSE
        /\ IsParticipant(c.id, a)
        /\ IsParticipant(c.id, b)}

\* POST /conversations by `a` naming `b`: the handler first checks that b exists.
StartConversation(p, a, b) ==
    /\ pc[p] = "idle"
    /\ IF UserExists(b)
       THEN /\ Goto(p, "gocd_select")
            /\ req' = [req EXCEPT ![p] = [op |-> "start", user |-> a, other |-> b, id |-> NULL]]
       ELSE Reply(p, [op |-> "start", user |-> a, other |-> b, err |-> "UserNotFound", id |-> NULL])
    /\ UNCHANGED <<tables, counters, tx, goroutines, directIds>>

\* The existence check: QueryRow scans the first matching row, if any.
GocdSelectFound(p) ==
    /\ pc[p] = "gocd_select"
    /\ \E c \in DirectMatches(req[p].user, req[p].other) :
         /\ Reply(p, [op |-> "start", user |-> req[p].user, other |-> req[p].other,
                      err |-> "OK", id |-> c.id])
         /\ directIds' = directIds \cup {<<{req[p].user, req[p].other}, c.id>>}
    /\ UNCHANGED <<tables, counters, tx, goroutines>>

\* sql.ErrNoRows: a fresh uuid is drawn and a transaction begun.
GocdSelectMissing(p) ==
    /\ pc[p] = "gocd_select"
    /\ DirectMatches(req[p].user, req[p].other) = {}
    /\ nextConv <= MaxConvs
    /\ req' = [req EXCEPT ![p].id = nextConv]
    /\ nextConv' = nextConv + 1
    /\ tx' = [tx EXCEPT ![p] = NoTx]
    /\ Goto(p, "gocd_conv")
    /\ UNCHANGED <<tables, nextGroup, nextMsg, clock, goroutines, directIds>>

GocdInsertConv(p) ==
    /\ pc[p] = "gocd_conv"
    /\ tx' = [tx EXCEPT ![p].conversations = @ \cup {ConvRow(req[p].id, FALSE, NULL)}]
    /\ Goto(p, "gocd_user")
    /\ UNCHANGED <<tables, counters, req, goroutines, directIds>>

GocdInsertUser(p) ==
    /\ pc[p] = "gocd_user"
    /\ tx' = [tx EXCEPT ![p].conversation_participants = @ \cup {PartRow(req[p].id, req[p].user)}]
    /\ Goto(p, "gocd_other")
    /\ UNCHANGED <<tables, counters, req, goroutines, directIds>>

\* The second participant row; PRIMARY KEY (conversation_id, user_id) rejects a
\* repeated user, the error returns and the deferred Rollback drops the writes.
GocdInsertOther(p) ==
    /\ pc[p] = "gocd_other"
    /\ IF \E r \in tx[p].conversation_participants :
            r.conversation_id = req[p].id /\ r.user_id = req[p].other
       THEN /\ Abort(p)
            /\ Reply(p, [op |-> "start", user |-> req[p].user, other |-> req[p].other,
                         err |-> "Constraint", id |-> NULL])
       ELSE /\ tx' = [tx EXCEPT ![p].conversation_participants =
                                    @ \cup {PartRow(req[p].id, req[p].other)}]
            /\ Goto(p, "gocd_commit")
            /\ UNCHANGED <<req, tables>>
    /\ UNCHANGED <<counters, goroutines, directIds>>

GocdCommit(p) ==
    /\ pc[p] = "gocd_commit"
    /\ conversations' = conversations \cup tx[p].conversations
    /\ conversation_participants' =
           conversation_participants \cup tx[p].conversation_participants
    /\ tx' = [tx EXCEPT ![p] = NoTx]
    /\ Reply(p, [op |-> "start", user |-> req[p].user, other |-> req[p].other,
                 err |-> "OK", id |-> req[p].id])
    /\ directIds' = directIds \cup {<<{req[p].user, req[p].other}, req[p].id>>}
    /\ UNCHANGED <<users, groups, group_members, messages, comments, counters, goroutines>>

(* ------------------------------------------------------------ messages  *)
Now == clock

\* Time passes.
Tick ==
    /\ clock < MaxClock
    /\ clock' = clock + 1
    /\ resp' = NoResp
    /\ UNCHANGED <<tables, nextConv, nextGroup, nextMsg, pc, req, tx, directIds, goroutines>>

MsgRow(m, c, u, content, photo, replyTo) ==
    [id |-> m, conversation_id |-> c, sender_id |-> u, content |-> content,
     photo |-> photo, timestamp |-> Now, status |-> "sent", reply_to |-> replyTo]

MsgExists(m) == \E r \in messages : r.id = m
MsgOf(m) == CHOOSE r \in messages : r.id = m

\* UPDATE messages SET status = st WHERE id IN ids
SetStatus(ids, st) ==
    {IF r.id \in ids THEN [r EXCEPT !.status = st] ELSE r : r \in messages}

\* (mutant of NotParticipantError) an existing conversation is told apart.
NotParticipantErrorTells(c) ==
    IF \E r \in conversations : r.id = c THEN "Forbidden" ELSE "ConversationNotFound"

\* GetConversation: count == 0 returns ErrConversationNotFound, whether or not
\* the conversation has a row.
NotParticipantError(c) == "ConversationNotFound"

\* GetConversation up to its reads: the participant check decides, the reads of
\* the conversation row, its members and its messages change nothing.
\* `k` is what the handler does once GetConversation has returned.
GetConversationCheck(p, k) ==
    IF IsParticipant(k.conv, k.user)
    THEN /\ Goto(p, "mark_time")
         /\ req' = [req EXCEPT ![p] = k]
    ELSE Reply(p, [op |-> k.op, user |-> k.user, conv |-> k.conv,
                   err |-> NotParticipantError(k.conv)])

\* GET /conversations/{conversationId}
GetConversation(p, u, c) ==
    /\ pc[p] = "idle"
    /\ GetConversationCheck(p, [op |-> "get", user |-> u, conv |-> c])
    /\ UNCHANGED <<tables, counters, tx, goroutines, directIds>>

\* POST /conversations/{conversationId}/messages
SendMessage(p, u, c, content, photo, replyTo) ==
    /\ pc[p] = "idle"
    /\ GetConversationCheck(p, [op |-> "send", user |-> u, conv |-> c, content |-> content,
                                photo |-> photo, reply_to |-> replyTo, msg |-> NULL])
    /\ UNCHANGED <<tables, counters, tx, goroutines, directIds>>

\* POST /conversations/{conversationId}/messages/{messageId}/comments
CommentMessage(p, u, c, m, e) ==
    /\ pc[p] = "idle"
    /\ GetConversationCheck(p, [op |-> "comment", user |-> u, conv |-> c, msg |-> m,
                                emoticon |-> e])
    /\ UNCHANGED <<tables, counters, tx, goroutines, directIds>>

\* POST /conversations/{conversationId}/messages/{messageId}/forward: the
\* GetConversation on the conversation named in the URL.
ForwardMessage(p, u, c, m, target) ==
    /\ pc[p] = "idle"
    /\ GetConversationCheck(p, [op |-> "forward", user |-> u, conv |-> c, msg |-> m,
                                target |-> target, stage |-> "source", content |-> "",
                                photo |-> "", reply_to |-> NULL])
    /\ UNCHANGED <<tables, counters, tx, goroutines, directIds>>

\* (mutant of CopyOf) nothing of the original is handed on.
CopyOfNothing(original) == [content |-> "", photo |-> ""]

\* What ForwardMessage hands to CreateMessage: originalMsg.Content, originalMsg.Photo.
CopyOf(original) == [content |-> original.content, photo |-> original.photo]

\* ForwardMessage: GetMessage(messageID), a SELECT by id alone joined with the
\* sender's users row; its content and photo are kept for the copy.
FwGetMessage(p) ==
    /\ pc[p] = "fw_get"
    /\ IF MsgExists(req[p].msg) /\ UserExists(MsgOf(req[p].msg).sender_id)
       THEN /\ req' = [req EXCEPT ![p].content = CopyOf(MsgOf(req[p].msg)).content,
                                  ![p].photo = CopyOf(MsgOf(req[p].msg)).photo]
            /\ Goto(p, "fw_target")
       ELSE Reply(p, [op |-> "forward", user |-> req[p].user, conv |-> req[p].conv,
                      err |-> "MessageNotFound"])
    /\ UNCHANGED <<tables, counters, tx, goroutines, directIds>>

\* ForwardMessage: the GetConversation on the target conversation.
FwTargetCheck(p) ==
    /\ pc[p] = "fw_target"
    /\ GetConversationCheck(p, [req[p] EXCEPT !.conv = req[p].target, !.stage = "target"])
    /\ UNCHANGED <<tables, counters, tx, goroutines, directIds>>

\* MarkConversationAsRead, first statement: UPDATE conversation_participants
\* SET last_read_time = CURRENT_TIMESTAMP WHERE conversation_id = ? AND user_id = ?
MarkReadTime(p) ==
    /\ pc[p] = "mark_time"
    /\ conversation_participants' =
          {IF r.conversation_id = req[p].conv /\ r.user_id = req[p].user
           THEN [r EXCEPT !.last_read_time = Now] ELSE r : r \in conversation_participants}
    /\ Goto(p, "mark_status")
    /\ UNCHANGED <<users, groups, group_members, conversations, messages, comments,
                   counters, req, tx, goroutines, directIds>>

\* (mutant of MarkReadTargets) the sender filter is lost.
MarkReadTargetsAll(c, u) ==
    {r.id : r \in {x \in messages : x.conversation_id = c /\ x.status # "read"}}

\* The rows of: UPDATE messages SET status = 'read'
\* WHERE conversation_id = ? AND sender_id != ? AND status != 'read'
MarkReadTargets(c, u) ==
    {r.id : r \in {x \in messages :
                     x.conversation_id = c /\ x.sender_id # u /\ x.status # "read"}}

\* (mutant of NoBody) the handler's validation is lost.
NoBodyNever(content, photo) == FALSE

\* SendMessage, step 5: content == "" && len(photo) == 0
NoBody(content, photo) == content = "" /\ photo = ""

\* CommentMessage: req.Emoticon == ""
NoEmoticon(e) == e = ""

\* What the handler does once GetConversation has returned without error:
\* GetConversation answers 200; SendMessage validates its body and goes on to
\* CreateMessage; CommentMessage validates the emoticon and goes on to AddComment;
\* ForwardMessage goes on to GetMessage after the source conversation and to
\* CreateMessage after the target conversation.
AfterGetConversation(p) ==
    CASE req[p].op = "get" ->
           Reply(p, [op |-> "get", user |-> req[p].user, conv |-> req[p].conv,
                     err |-> "OK"])
      [] req[p].op = "send" ->
           IF NoBody(req[p].content, req[p].photo)
           THEN Reply(p, [op |-> "send", user |-> req[p].user, conv |-> req[p].conv,
                          err |-> "BadRequest"])
           ELSE Goto(p, "cm_insert") /\ UNCHANGED req
      [] req[p].op = "comment" ->
           IF NoEmoticon(req[p].emoticon)
           THEN Reply(p, [op |-> "comment", user |-> req[p].user, conv |-> req[p].conv,
                          err |-> "BadRequest"])
           ELSE Goto(p, "ac_check") /\ UNCHANGED req
      [] req[p].op = "forward" ->
           Goto(p, IF req[p].stage = "source" THEN "fw_get" ELSE "cm_insert")
              /\ UNCHANGED req

\* MarkConversationAsRead, second statement, and GetConversation's return.
MarkReadStatus(p) ==
    /\ pc[p] = "mark_status"
    /\ messages' = SetStatus(MarkReadTargets(req[p].conv, req[p].user), "read")
    /\ AfterGetConversation(p)
    /\ UNCHANGED <<users, groups, group_members, conversations,
                   conversation_participants, comments, counters, tx, goroutines, directIds>>

\* (mutant of NewMessageId) the lowest id that no message has at the moment.
LowestFreeMessageId ==
    CHOOSE i \in 1..nextMsg : ~MsgExists(i) /\ \A j \in 1..(i - 1) : MsgExists(j)

\* uuid.NewV4(): an id that no message has or has had.
NewMessageId == nextMsg

\* CreateMessage: the INSERT with status 'sent', then the `go` statement that
\* spawns updateMessageStatusForRecipients for the new id.
CreateMessageInsert(p) ==
    /\ pc[p] = "cm_insert"
    /\ nextMsg <= MaxMsgs
    /\ messages' = messages \cup {MsgRow(NewMessageId, req[p].conv, req[p].user,
                                         req[p].content, req[p].photo, req[p].reply_to)}
    /\ nextMsg' = nextMsg + 1
    /\ goroutines' = goroutines \cup {NewMessageId}
    /\ req' = [req EXCEPT ![p].msg = NewMessageId]
    /\ Goto(p, "cm_sender")
    /\ UNCHANGED <<users, groups, group_members, conversations,
                   conversation_participants, comments, nextConv, nextGroup, clock, tx, directIds>>

\* CreateMessage: GetUserByID(senderID), then the Message returned with the
\* literal Status "sent".
CreateMessageReturn(p) ==
    /\ pc[p] = "cm_sender"
    /\ IF UserExists(req[p].user)
       THEN Reply(p, [op |-> req[p].op, user |-> req[p].user, conv |-> req[p].conv,
                      err |-> "OK", msg |-> req[p].msg, status |-> "sent"])
       ELSE Reply(p, [op |-> req[p].op, user |-> req[p].user, conv |-> req[p].conv,
                      err |-> "UserNotFound", msg |-> req[p].msg])
    /\ UNCHANGED <<tables, counters, tx, goroutines, directIds>>

\* (mutant of ReceivedStatus) the UPDATE matches no row.
ReceivedStatusLost(m) == messages

\* UPDATE messages SET status = 'received' WHERE id = ?
ReceivedStatus(m) == SetStatus({m}, "received")

\* The goroutine updateMessageStatusForRecipients(messageID, ...) runs.
UpdateMessageStatusForRecipients(m) ==
    /\ m \in goroutines
    /\ messages' = ReceivedStatus(m)
    /\ goroutines' = goroutines \ {m}
    /\ UNCHANGED <<users, groups, group_members, conversations,
                   conversation_participants, comments, counters, pc, req, tx, directIds>>
    /\ resp' = NoResp

\* (mutant of MayDelete) the ownership check is lost.
MayDeleteAnyone(m, u) == TRUE

\* DeleteMessage: senderID != userID returns ErrNotMessageOwner.
MayDelete(m, u) == MsgOf(m).sender_id = u

\* DELETE /conversations/{conversationId}/messages/{messageId}: DeleteMessage's
\* SELECT sender_id and its two checks.
DeleteMessage(p, u, m) ==
    /\ pc[p] = "idle"
    /\ IF ~MsgExists(m)
       THEN Reply(p, [op |-> "delete", user |-> u, msg |-> m, err |-> "MessageNotFound"])
       ELSE IF ~MayDelete(m, u)
       THEN Reply(p, [op |-> "delete", user |-> u, msg |-> m, err |-> "NotMessageOwner"])
       ELSE /\ Goto(p, "dm_comments")
            /\ req' = [req EXCEPT ![p] = [op |-> "delete", user |-> u, msg |-> m]]
    /\ UNCHANGED <<tables, counters, tx, goroutines, directIds>>

\* DELETE FROM comments WHERE message_id = ?
DeleteMessageComments(p) ==
    /\ pc[p] = "dm_comments"
    /\ comments' = {r \in comments : r.message_id # req[p].msg}
    /\ Goto(p, "dm_message")
    /\ UNCHANGED <<users, groups, group_members, conversations,
                   conversation_participants, messages, counters, req, tx, goroutines, directIds>>

\* DELETE FROM messages WHERE id = ?
DeleteMessageRow(p) ==
    /\ pc[p] = "dm_message"
    /\ messages' = {r \in messages : r.id # req[p].msg}
    /\ Reply(p, [op |-> "delete", user |-> req[p].user, msg |-> req[p].msg, err |-> "OK"])
    /\ UNCHANGED <<users, groups, group_members, conversations,
                   conversation_participants, comments, counters, tx, goroutines, directIds>>

(* ------------------------------------------------------------ reactions  *)
\* AddComment: GetMessage joins messages with users on the sender.
AddCommentCheck(p) ==
    /\ pc[p] = "ac_check"
    /\ IF MsgExists(req[p].msg) /\ UserExists(MsgOf(req[p].msg).sender_id)
       THEN Goto(p, "ac_insert") /\ UNCHANGED req
       ELSE Reply(p, [op |-> "comment", user |-> req[p].user, conv |-> req[p].conv,
                      err |-> "MessageNotFound"])
    /\ UNCHANGED <<tables, counters, tx, goroutines, directIds>>

\* (mutant of InsertOrReplace) a plain INSERT into a table without the key.
InsertNoKey(rows, m, u, e) ==
    rows \cup {[message_id |-> m, user_id |-> u, emoticon |-> e]}

\* INSERT OR REPLACE INTO comments under PRIMARY KEY (message_id, user_id).
InsertOrReplace(rows, m, u, e) ==
    {r \in rows : ~(r.message_id = m /\ r.user_id = u)}
        \cup {[message_id |-> m, user_id |-> u, emoticon |-> e]}

AddCommentInsert(p) ==
    /\ pc[p] = "ac_insert"
    /\ comments' = InsertOrReplace(comments, req[p].msg, req[p].user, req[p].emoticon)
    /\ Reply(p, [op |-> "comment", user |-> req[p].user, conv |-> req[p].conv,
                 msg |-> req[p].msg, emoticon |-> req[p].emoticon, err |-> "OK"])
    /\ UNCHANGED <<users, groups, group_members, conversations,
                   conversation_participants, messages, counters, tx, goroutines, directIds>>

\* (mutant of RemoveCommentRows) the DELETE without its user_id condition.
RemoveCommentRowsOfMessage(m, u) == {r \in comments : r.message_id # m}

\* DELETE FROM comments WHERE message_id = ? AND user_id = ?
RemoveCommentRows(m, u) == {r \in comments : ~(r.message_id = m /\ r.user_id = u)}

\* DELETE /conversations/{conversationId}/messages/{messageId}/comments:
\* RemoveComment is one DELETE; no row affected is ErrCommentNotFound.
UncommentMessage(p, u, m) ==
    /\ pc[p] = "idle"
    /\ comments' = RemoveCommentRows(m, u)
    /\ Reply(p, [op |-> "uncomment", user |-> u, msg |-> m,
                 err |-> IF comments' = comments THEN "CommentNotFound" ELSE "OK"])
    /\ UNCHANGED <<users, groups, group_members, conversations,
                   conversation_participants, messages, counters, tx, goroutines, directIds>>

(* -------------------------------------------------------------- groups  *)
GroupExists(g) == \E r \in groups : r.id = g
MemberRow(g, u) == [group_id |-> g, user_id |-> u]

\* (mutant of IsGroupMember) the count is never zero.
IsGroupMemberAlways(g, u) == TRUE

\* SELECT COUNT(*) FROM group_members WHERE group_id = ? AND user_id = ?
IsGroupMember(g, u) == MemberRow(g, u) \in group_members

Members(g) == {r.user_id : r \in {x \in group_members : x.group_id = g}}

\* SELECT id FROM conversations WHERE group_id = ?
GroupConvs(g) == {c.id : c \in {x \in conversations : x.group_id = g}}

\* The first position from i on whose member is not the creator (`continue`
\* skips the creator), Len + 1 when the loop is over.
RECURSIVE NextMember(_, _, _)
NextMember(ids, i, creator) ==
    IF i > Len(ids) THEN i
    ELSE IF ids[i] = creator THEN NextMember(ids, i + 1, creator)
    ELSE i

\* POST /groups: the handler rejects an empty name; CreateGroup draws the group's
\* uuid and begins a transaction.
CreateGroup(p, u, name, ids) ==
    /\ pc[p] = "idle"
    /\ IF name = ""
       THEN /\ Reply(p, [op |-> "create", user |-> u, group |-> NULL, err |-> "BadRequest"])
            /\ UNCHANGED <<nextGroup, tx>>
       ELSE /\ nextGroup <= MaxGroups
            /\ nextGroup' = nextGroup + 1
            /\ tx' = [tx EXCEPT ![p] = NoTx]
            /\ req' = [req EXCEPT ![p] = [op |-> "create", user |-> u, name |-> name,
                                          ids |-> ids, group |-> nextGroup, conv |-> NULL,
                                          i |-> NextMember(ids, 1, u)]]
            /\ Goto(p, "cg_group")
    /\ UNCHANGED <<tables, nextConv, nextMsg, clock, goroutines, directIds>>

\* INSERT INTO groups, then the conversation's uuid is drawn.
CgInsertGroup(p) ==
    /\ pc[p] = "cg_group"
    /\ nextConv <= MaxConvs
    /\ tx' = [tx EXCEPT ![p].groups = @ \cup {[id |-> req[p].group, name |-> req[p].name]}]
    /\ req' = [req EXCEPT ![p].conv = nextConv]
    /\ nextConv' = nextConv + 1
    /\ Goto(p, "cg_conv")
    /\ UNCHANGED <<tables, nextGroup, nextMsg, clock, goroutines, directIds>>

\* INSERT INTO conversations (id, is_group, group_id) VALUES (?, 1, ?)
CgInsertConv(p) ==
    /\ pc[p] = "cg_conv"
    /\ tx' = [tx EXCEPT ![p].conversations =
                            @ \cup {ConvRow(req[p].conv, TRUE, req[p].group)}]
    /\ Goto(p, "cg_creator_gm")
    /\ UNCHANGED <<tables, counters, req, goroutines, directIds>>

\* INSERT INTO group_members for the creator
CgInsertCreatorMember(p) ==
    /\ pc[p] = "cg_creator_gm"
    /\ tx' = [tx EXCEPT ![p].group_members = @ \cup {MemberRow(req[p].group, req[p].user)}]
    /\ Goto(p, "cg_creator_cp")
    /\ UNCHANGED <<tables, counters, req, goroutines, directIds>>

\* INSERT INTO conversation_participants for the creator
CgInsertCreatorParticipant(p) ==
    /\ pc[p] = "cg_creator_cp"
    /\ tx' = [tx EXCEPT ![p].conversation_participants =
                            @ \cup {PartRow(req[p].conv, req[p].user)}]
    /\ Goto(p, IF req[p].i > Len(req[p].ids) THEN "cg_commit" ELSE "cg_member_gm")
    /\ UNCHANGED <<tables, counters, req, goroutines, directIds>>

\* The loop's INSERT INTO group_members; PRIMARY KEY (group_id, user_id) rejects
\* an id listed twice: the error returns and the deferred Rollback runs.
CgInsertMember(p) ==
    /\ pc[p] = "cg_member_gm"
    /\ LET row == MemberRow(req[p].group, req[p].ids[req[p].i]) IN
       IF row \in tx[p].group_members
       THEN /\ Abort(p)
            /\ Reply(p, [op |-> "create", user |-> req[p].user, group |-> req[p].group,
                         err |-> "Constraint"])
       ELSE /\ tx' = [tx EXCEPT ![p].group_members = @ \cup {row}]
            /\ Goto(p, "cg_member_cp")
            /\ UNCHANGED <<req, tables>>
    /\ UNCHANGED <<counters, goroutines, directIds>>

\* The loop's INSERT INTO conversation_participants, then the next id.
CgInsertParticipant(p) ==
    /\ pc[p] = "cg_member_cp"
    /\ LET j == NextMember(req[p].ids, req[p].i + 1, req[p].user) IN
         /\ tx' = [tx EXCEPT ![p].conversation_participants =
                                 @ \cup {PartRow(req[p].conv, req[p].ids[req[p].i])}]
         /\ req' = [req EXCEPT ![p].i = j]
         /\ Goto(p, IF j > Len(req[p].ids) THEN "cg_commit" ELSE "cg_member_gm")
    /\ UNCHANGED <<tables, counters, goroutines, directIds>>

CgCommit(p) ==
    /\ pc[p] = "cg_commit"
    /\ groups' = groups \cup tx[p].groups
    /\ conversations' = conversations \cup tx[p].conversations
    /\ group_members' = group_members \cup tx[p].group_members
    /\ conversation_participants' =
           conversation_participants \cup tx[p].conversation_participants
    /\ tx' = [tx EXCEPT ![p] = NoTx]
    /\ Goto(p, "cg_get")
    /\ UNCHANGED <<users, messages, comments, counters, req, goroutines, directIds>>

\* return db.GetGroup(id): the group read back after the commit.
CgGetGroup(p) ==
    /\ pc[p] = "cg_get"
    /\ Reply(p, [op |-> "create", user |-> req[p].user, group |-> req[p].group,
                 err |-> IF GroupExists(req[p].group) THEN "OK" ELSE "GroupNotFound"])
    /\ UNCHANGED <<tables, counters, tx, goroutines, directIds>>

\* The storage engine fails a statement of the transaction or its Commit (I/O
\* error, database locked): CreateGroup returns the error and the deferred
\* Rollback drops what the transaction wrote.
CgStatementFails(p) ==
    /\ pc[p] \in {"cg_group", "cg_conv", "cg_creator_gm", "cg_creator_cp",
                  "cg_member_gm", "cg_member_cp", "cg_commit"}
    /\ Abort(p)
    /\ Reply(p, [op |-> "create", user |-> req[p].user, group |-> req[p].group,
                 err |-> "StorageFailure"])
    /\ UNCHANGED <<counters, goroutines, directIds>>

\* The storage engine fails the read-back: the transaction is already committed.
CgGetGroupFails(p) ==
    /\ pc[p] = "cg_get"
    /\ Reply(p, [op |-> "create", user |-> req[p].user, group |-> req[p].group,
                 err |-> "StorageFailure"])
    /\ UNCHANGED <<tables, counters, tx, goroutines, directIds>>

\* (mutant of MayAdd) a user may add themselves.
MayAddSelf(g, adder, u) == IsGroupMember(g, adder) \/ adder = u

\* AddUserToGroup: !isMember returns ErrNotGroupMember, isMember being
\* IsGroupMember(groupID, adderID).
MayAdd(g, adder, u) == IsGroupMember(g, adder)

\* POST /groups/{groupId}/members: AddUserToGroup's IsGroupMember(groupID, adderID)
AddToGroup(p, adder, g, u) ==
    /\ pc[p] = "idle"
    /\ IF MayAdd(g, adder, u)
       THEN /\ req' = [req EXCEPT ![p] = [op |-> "add", user |-> u, adder |-> adder,
                                          group |-> g, conv |-> NULL]]
            /\ Goto(p, "ag_user")
       ELSE Reply(p, [op |-> "add", user |-> u, adder |-> adder, group |-> g,
                      err |-> "NotGroupMember"])
    /\ UNCHANGED <<tables, counters, tx, goroutines, directIds>>

\* GetUserByID(userID)
AgCheckUser(p) ==
    /\ pc[p] = "ag_user"
    /\ IF UserExists(req[p].user)
       THEN Goto(p, "ag_conv") /\ UNCHANGED req
       ELSE Reply(p, [op |-> "add", user |-> req[p].user, adder |-> req[p].adder,
                      group |-> req[p].group, err |-> "UserNotFound"])
    /\ UNCHANGED <<tables, counters, tx, goroutines, directIds>>

\* SELECT id FROM conversations WHERE group_id = ?  (sql.ErrNoRows is returned raw)
AgSelectConv(p) ==
    /\ pc[p] = "ag_conv"
    /\ IF GroupConvs(req[p].group) = {}
       THEN Reply(p, [op |-> "add", user |-> req[p].user, adder |-> req[p].adder,
                      group |-> req[p].group, err |-> "NoRows"])
       ELSE \E c \in GroupConvs(req[p].group) :
              /\ req' = [req EXCEPT ![p].conv = c]
              /\ Goto(p, "ag_gm")
    /\ UNCHANGED <<tables, counters, tx, goroutines, directIds>>

\* INSERT OR IGNORE INTO group_members
AgInsertMember(p) ==
    /\ pc[p] = "ag_gm"
    /\ group_members' = group_members \cup {MemberRow(req[p].group, req[p].user)}
    /\ Goto(p, "ag_cp")
    /\ UNCHANGED <<users, groups, conversations, conversation_participants, messages,
                   comments, counters, req, tx, goroutines, directIds>>

\* (mutant of InsertOrIgnoreParticipant) INSERT OR REPLACE: an existing row is
\* replaced by a fresh one.
InsertOrReplaceParticipant(c, u) ==
    {r \in conversation_participants : ~(r.conversation_id = c /\ r.user_id = u)}
        \cup {PartRow(c, u)}

\* INSERT OR IGNORE INTO conversation_participants (conversation_id, user_id)
\* under PRIMARY KEY (conversation_id, user_id): an existing row stays as it is.
InsertOrIgnoreParticipant(c, u) ==
    IF IsParticipant(c, u)
    THEN conversation_participants
    ELSE conversation_participants \cup {PartRow(c, u)}

\* INSERT OR IGNORE INTO conversation_participants
AgInsertParticipant(p) ==
    /\ pc[p] = "ag_cp"
    /\ conversation_participants' = InsertOrIgnoreParticipant(req[p].conv, req[p].user)
    /\ Reply(p, [op |-> "add", user |-> req[p].user, adder |-> req[p].adder,
                 group |-> req[p].group, err |-> "OK"])
    /\ UNCHANGED <<users, groups, group_members, conversations, messages,
                   comments, counters, tx, goroutines, directIds>>

\* DELETE /groups/{groupId}/members/me: RemoveUserFromGroup's IsGroupMember
LeaveGroup(p, u, g) ==
    /\ pc[p] = "idle"
    /\ IF IsGroupMember(g, u)
       THEN /\ req' = [req EXCEPT ![p] = [op |-> "leave", user |-> u, group |-> g,
                                          conv |-> NULL]]
            /\ Goto(p, "rg_conv")
       ELSE Reply(p, [op |-> "leave", user |-> u, group |-> g, err |-> "NotGroupMember"])
    /\ UNCHANGED <<tables, counters, tx, goroutines, directIds>>

\* SELECT id FROM conversations WHERE group_id = ?
RgSelectConv(p) ==
    /\ pc[p] = "rg_conv"
    /\ IF GroupConvs(req[p].group) = {}
       THEN Reply(p, [op |-> "leave", user |-> req[p].user, group |-> req[p].group,
                      err |-> "NoRows"])
       ELSE \E c \in GroupConvs(req[p].group) :
              /\ req' = [req EXCEPT ![p].conv = c]
              /\ Goto(p, "rg_gm")
    /\ UNCHANGED <<tables, counters, tx, goroutines, directIds>>

\* DELETE FROM group_members WHERE group_id = ? AND user_id = ?
RgDeleteMember(p) ==
    /\ pc[p] = "rg_gm"
    /\ group_members' = group_members \ {MemberRow(req[p].group, req[p].user)}
    /\ Goto(p, "rg_cp")
    /\ UNCHANGED <<users, groups, conversations, conversation_participants, messages,
                   comments, counters, req, tx, goroutines, directIds>>

\* (mutant of LeaveParticipants) the conversation is not in the WHERE clause.
LeaveParticipantsEverywhere(c, u) ==
    {r \in conversation_participants : r.user_id # u}

\* The rows left by: DELETE FROM conversation_participants
\* WHERE conversation_id = ? AND user_id = ?
LeaveParticipants(c, u) ==
    {r \in conversation_participants : ~(r.conversation_id = c /\ r.user_id = u)}

\* DELETE FROM conversation_participants WHERE conversation_id = ? AND user_id = ?
RgDeleteParticipant(p) ==
    /\ pc[p] = "rg_cp"
    /\ conversation_participants' = LeaveParticipants(req[p].conv, req[p].user)
    /\ Reply(p, [op |-> "leave", user |-> req[p].user, group |-> req[p].group,
                 err |-> "OK"])
    /\ UNCHANGED <<users, groups, group_members, conversations, messages,
                   comments, counters, tx, goroutines, directIds>>

(* ------------------------------------------------------- specifications  *)
Quiet(p) == \A q \in Procs \ {p} : pc[q] = "idle"

EmptyStore ==
    /\ groups = {} /\ group_members = {} /\ conversations = {}
    /\ conversation_participants = {} /\ messages = {} /\ comments = {}
    /\ nextConv = 1 /\ nextGroup = 1 /\ nextMsg = 1 /\ clock = 1
    /\ pc = [p \in Procs |-> "idle"]
    /\ req = [p \in Procs |-> NoReq]
    /\ tx = [p \in Procs |-> NoTx]
    /\ resp = NoResp
    /\ directIds = {}
    /\ goroutines = {}

\* The store after Maria, Luigi and Anna have logged in.
InitDirect ==
    /\ users = {UserRow(u) : u \in UserIds}
    /\ EmptyStore

DirectStep(p) ==
    \/ \E a, b \in UserIds : StartConversation(p, a, b)
    \/ GocdSelectFound(p)
    \/ GocdSelectMissing(p)
    \/ GocdInsertConv(p)
    \/ GocdInsertUser(p)
    \/ GocdInsertOther(p)
    \/ GocdCommit(p)

\* Concurrent requests.
NextDirect == \E p \in Procs : DirectStep(p)
SpecDirect == InitDirect /\ [][NextDirect]_vars

\* A sequential history: a request starts only when no other is in progress.
NextDirectSeq == \E p \in Procs : Quiet(p) /\ DirectStep(p)
SpecDirectSeq == InitDirect /\ [][NextDirectSeq]_vars

\* The store after the three logins and after Maria has started a conversation
\* with Luigi (1) and one with Anna (2).
InitChat ==
    /\ users = {UserRow(u) : u \in UserIds}
    /\ groups = {} /\ group_members = {}
    /\ conversations = {ConvRow(1, FALSE, NULL), ConvRow(2, FALSE, NULL)}
    /\ conversation_participants =
          {PartRow(1, "u1"), PartRow(1, "u2"), PartRow(2, "u1"), PartRow(2, "u3")}
    /\ messages = {} /\ comments = {}
    /\ nextConv = 3 /\ nextGroup = 1 /\ nextMsg = 1 /\ clock = 1
    /\ pc = [p \in Procs |-> "idle"]
    /\ req = [p \in Procs |-> NoReq]
    /\ tx = [p \in Procs |-> NoTx]
    /\ resp = NoResp
    /\ directIds = {}
    /\ goroutines = {}

ConvIds == 1..2
MsgIds == 1..MaxMsgs
Contents == {"", "hi"}
Emoticons == {"", "like", "heart"}

\* One request slot per logged-in user: p1 serves Maria, p2 serves Luigi.
Of == [p1 |-> "u1", p2 |-> "u2"]

\* Sending, reading and deleting, concurrently.
NextStatus ==
    \/ \E p \in Procs, c \in ConvIds : SendMessage(p, Of[p], c, "hi", "", NULL)
    \/ \E p \in Procs, c \in ConvIds : GetConversation(p, Of[p], c)
    \/ \E p \in Procs, m \in MsgIds : DeleteMessage(p, Of[p], m)
    \/ \E p \in Procs : MarkReadTime(p)
    \/ \E p \in Procs : MarkReadStatus(p)
    \/ \E p \in Procs : CreateMessageInsert(p)
    \/ \E p \in Procs : CreateMessageReturn(p)
    \/ \E p \in Procs : DeleteMessageComments(p)
    \/ \E p \in Procs : DeleteMessageRow(p)
    \/ \E m \in MsgIds : UpdateMessageStatusForRecipients(m)
SpecStatus == InitChat /\ [][NextStatus]_vars

\* The store after the three logins.
InitGroups ==
    /\ users = {UserRow(u) : u \in UserIds}
    /\ EmptyStore

\* The memberIds lists of POST /groups: none, one member, two members, an id
\* listed twice, the creator listed.
MemberLists == {<< >>, <<"u2">>, <<"u2", "u3">>, <<"u3", "u3">>, <<"u1", "u2">>}
GroupIds == 1..MaxGroups

\* Maria creates groups in two concurrent requests; the storage engine may fail
\* any statement.  Meanwhile members add Anna to a group and Luigi leaves one.
NextCreate ==
    \/ \E p \in Procs, ids \in MemberLists : CreateGroup(p, "u1", "Team", ids)
    \/ \E p \in Procs : CgInsertGroup(p)
    \/ \E p \in Procs : CgInsertConv(p)
    \/ \E p \in Procs : CgInsertCreatorMember(p)
    \/ \E p \in Procs : CgInsertCreatorParticipant(p)
    \/ \E p \in Procs : CgInsertMember(p)
    \/ \E p \in Procs : CgInsertParticipant(p)
    \/ \E p \in Procs : CgCommit(p)
    \/ \E p \in Procs : CgGetGroup(p)
    \/ \E p \in Procs : CgStatementFails(p)
    \/ \E p \in Procs : CgGetGroupFails(p)
    \/ \E g \in GroupIds : AddToGroup("p2", "u1", g, "u3")
    \/ AgCheckUser("p2")
    \/ AgSelectConv("p2")
    \/ AgInsertMember("p2")
    \/ AgInsertParticipant("p2")
    \/ \E g \in GroupIds : LeaveGroup("p2", "u2", g)
    \/ RgSelectConv("p2")
    \/ RgDeleteMember("p2")
    \/ RgDeleteParticipant("p2")
SpecCreate == InitGroups /\ [][NextCreate]_vars

\* The store after the three logins and create("Team", u1, [u2]): group 1 with
\* its conversation 1.
InitMembers ==
    /\ users = {UserRow(u) : u \in UserIds}
    /\ groups = {[id |-> 1, name |-> "Team"]}
    /\ group_members = {MemberRow(1, "u1"), MemberRow(1, "u2")}
    /\ conversations = {ConvRow(1, TRUE, 1)}
    /\ conversation_participants = {PartRow(1, "u1"), PartRow(1, "u2")}
    /\ messages = {} /\ comments = {}
    /\ nextConv = 2 /\ nextGroup = 2 /\ nextMsg = 1 /\ clock = 1
    /\ pc = [p \in Procs |-> "idle"]
    /\ req = [p \in Procs |-> NoReq]
    /\ tx = [p \in Procs |-> NoTx]
    /\ resp = NoResp
    /\ directIds = {}
    /\ goroutines = {}

\* Members add users and leave, concurrently.
NextMembers ==
    \/ \E p \in Procs, a \in UserIds, u \in UserIds : AddToGroup(p, a, 1, u)
    \/ \E p \in Procs : AgCheckUser(p)
    \/ \E p \in Procs : AgSelectConv(p)
    \/ \E p \in Procs : AgInsertMember(p)
    \/ \E p \in Procs : AgInsertParticipant(p)
    \/ \E p \in Procs, u \in UserIds : LeaveGroup(p, u, 1)
    \/ \E p \in Procs : RgSelectConv(p)
    \/ \E p \in Procs : RgDeleteMember(p)
    \/ \E p \in Procs : RgDeleteParticipant(p)
SpecMembers == InitMembers /\ [][NextMembers]_vars

\* Maria sends to Luigi and deletes her messages while Luigi reads the
\* conversation; the Go scheduler runs every goroutine it was handed.
NextDeliver ==
    \/ SendMessage("p1", "u1", 1, "hi", "", NULL)
    \/ \E m \in MsgIds : DeleteMessage("p1", "u1", m)
    \/ GetConversation("p2", "u2", 1)
    \/ \E p \in Procs : MarkReadTime(p)
    \/ \E p \in Procs : MarkReadStatus(p)
    \/ CreateMessageInsert("p1")
    \/ CreateMessageReturn("p1")
    \/ DeleteMessageComments("p1")
    \/ DeleteMessageRow("p1")
    \/ \E m \in MsgIds : UpdateMessageStatusForRecipients(m)
    \/ Tick
SpecDeliver ==
    /\ InitChat
    /\ [][NextDeliver]_vars
    /\ \A m \in MsgIds : WF_vars(UpdateMessageStatusForRecipients(m))

\* The store after the logins, the two conversations, send(1, u1, "hi") and
\* send(1, u2, "hi"), both delivered and read, and Maria's "like" on Luigi's
\* message.
InitReact ==
    /\ nextConv = 3 /\ nextGroup = 1 /\ nextMsg = 3 /\ clock = 1
    /\ users = {UserRow(u) : u \in UserIds}
    /\ groups = {} /\ group_members = {}
    /\ conversations = {ConvRow(1, FALSE, NULL), ConvRow(2, FALSE, NULL)}
    /\ conversation_participants =
          {[PartRow(1, "u1") EXCEPT !.last_read_time = 1],
           [PartRow(1, "u2") EXCEPT !.last_read_time = 1],
           PartRow(2, "u1"), PartRow(2, "u3")}
    /\ messages = {[MsgRow(1, 1, "u1", "hi", "", NULL) EXCEPT !.timestamp = 1, !.status = "read"],
                   [MsgRow(2, 1, "u2", "hi", "", NULL) EXCEPT !.timestamp = 1, !.status = "read"]}
    /\ comments = {[message_id |-> 2, user_id |-> "u1", emoticon |-> "like"]}
    /\ pc = [p \in Procs |-> "idle"]
    /\ req = [p \in Procs |-> NoReq]
    /\ tx = [p \in Procs |-> NoTx]
    /\ resp = NoResp
    /\ directIds = {}
    /\ goroutines = {}

\* Reacting, withdrawing a reaction and deleting, concurrently.
NextReact ==
    \/ \E p \in Procs, m \in MsgIds, e \in Emoticons : CommentMessage(p, Of[p], 1, m, e)
    \/ \E p \in Procs, m \in MsgIds : UncommentMessage(p, Of[p], m)
    \/ \E p \in Procs, m \in MsgIds : DeleteMessage(p, Of[p], m)
    \/ \E p \in Procs : MarkReadTime(p)
    \/ \E p \in Procs : MarkReadStatus(p)
    \/ \E p \in Procs : AddCommentCheck(p)
    \/ \E p \in Procs : AddCommentInsert(p)
    \/ \E p \in Procs : DeleteMessageComments(p)
    \/ \E p \in Procs : DeleteMessageRow(p)
SpecReact == InitReact /\ [][NextReact]_vars

\* The store after the logins, the two conversations and Maria's send(2, u1,
\* "secret") to Anna, delivered: Luigi is in conversation 1 only.
InitAccess ==
    /\ nextConv = 3 /\ nextGroup = 1 /\ nextMsg = 2 /\ clock = 1
    /\ users = {UserRow(u) : u \in UserIds}
    /\ groups = {} /\ group_members = {}
    /\ conversations = {ConvRow(1, FALSE, NULL), ConvRow(2, FALSE, NULL)}
    /\ conversation_participants =
          {PartRow(1, "u1"), PartRow(1, "u2"),
           [PartRow(2, "u1") EXCEPT !.last_read_time = 1], PartRow(2, "u3")}
    /\ messages = {[MsgRow(1, 2, "u1", "secret", "", NULL) EXCEPT !.status = "received"]}
    /\ comments = {}
    /\ pc = [p \in Procs |-> "idle"]
    /\ req = [p \in Procs |-> NoReq]
    /\ tx = [p \in Procs |-> NoTx]
    /\ resp = NoResp
    /\ directIds = {}
    /\ goroutines = {}

\* Conversation 1, conversation 2 and an id no conversation has.
AccessConvIds == 1..3

\* Maria and Luigi read conversations and Luigi reacts and forwards, naming any
\* conversation and any message in the URL.
NextAccess ==
    \/ \E p \in Procs, c \in AccessConvIds : GetConversation(p, Of[p], c)
    \/ \E c \in AccessConvIds, m \in MsgIds : CommentMessage("p2", "u2", c, m, "like")
    \/ \E c \in AccessConvIds, m \in MsgIds, t \in ConvIds :
          ForwardMessage("p2", "u2", c, m, t)
    \/ \E p \in Procs : MarkReadTime(p)
    \/ \E p \in Procs : MarkReadStatus(p)
    \/ AddCommentCheck("p2")
    \/ AddCommentInsert("p2")
    \/ FwGetMessage("p2")
    \/ FwTargetCheck("p2")
    \/ CreateMessageInsert("p2")
    \/ CreateMessageReturn("p2")
    \/ \E m \in MsgIds : UpdateMessageStatusForRecipients(m)
SpecAccess == InitAccess /\ [][NextAccess]_vars

\* The store after the logins, create("Team", u1, [u2]) (group 1 with its
\* conversation 1), Maria's conversation 2 with Luigi, her send(1, u1, "hi") and
\* Luigi's "like" on it, which read the conversation for him.
InitTeam ==
    /\ nextConv = 3 /\ nextGroup = 2 /\ nextMsg = 2 /\ clock = 1
    /\ users = {UserRow(u) : u \in UserIds}
    /\ groups = {[id |-> 1, name |-> "Team"]}
    /\ group_members = {MemberRow(1, "u1"), MemberRow(1, "u2")}
    /\ conversations = {ConvRow(1, TRUE, 1), ConvRow(2, FALSE, NULL)}
    /\ conversation_participants =
          {[PartRow(1, "u1") EXCEPT !.last_read_time = 1],
           [PartRow(1, "u2") EXCEPT !.last_read_time = 1],
           PartRow(2, "u1"), PartRow(2, "u2")}
    /\ messages = {[MsgRow(1, 1, "u1", "hi", "", NULL) EXCEPT !.status = "read"]}
    /\ comments = {[message_id |-> 1, user_id |-> "u2", emoticon |-> "like"]}
    /\ pc = [p \in Procs |-> "idle"]
    /\ req = [p \in Procs |-> NoReq]
    /\ tx = [p \in Procs |-> NoTx]
    /\ resp = NoResp
    /\ directIds = {}
    /\ goroutines = {}

\* Group 1 and an id no group has.
TeamGroupIds == 1..2

TeamStep(p) ==
    \/ \E a \in UserIds, u \in UserIds, g \in TeamGroupIds : AddToGroup(p, a, g, u)
    \/ AgCheckUser(p)
    \/ AgSelectConv(p)
    \/ AgInsertMember(p)
    \/ AgInsertParticipant(p)
    \/ \E u \in UserIds, g \in TeamGroupIds : LeaveGroup(p, u, g)
    \/ RgSelectConv(p)
    \/ RgDeleteMember(p)
    \/ RgDeleteParticipant(p)

\* Adding and leaving, concurrently.
NextTeam == \E p \in Procs : TeamStep(p)
SpecTeam == InitTeam /\ [][NextTeam]_vars

\* Adding and leaving, one request at a time.
NextTeamSeq == \E p \in Procs : Quiet(p) /\ TeamStep(p)
SpecTeamSeq == InitTeam /\ [][NextTeamSeq]_vars

\* Maria adds Luigi, who is a member, while Luigi leaves the group, reads its
\* conversation and sends to it.
NextLeave ==
    \/ AddToGroup("p1", "u1", 1, "u2")
    \/ AgCheckUser("p1")
    \/ AgSelectConv("p1")
    \/ AgInsertMember("p1")
    \/ AgInsertParticipant("p1")
    \/ LeaveGroup("p2", "u2", 1)
    \/ RgSelectConv("p2")
    \/ RgDeleteMember("p2")
    \/ RgDeleteParticipant("p2")
    \/ GetConversation("p2", "u2", 1)
    \/ SendMessage("p2", "u2", 1, "hi", "", NULL)
    \/ MarkReadTime("p2")
    \/ MarkReadStatus("p2")
    \/ CreateMessageInsert("p2")
    \/ CreateMessageReturn("p2")
    \/ \E m \in MsgIds : UpdateMessageStatusForRecipients(m)
SpecLeave == InitTeam /\ [][NextLeave]_vars

(* ------------------------------------------------ direct conversations: claims *)
\* The non-group conversations whose participants are exactly a and b.
DirectOf(a, b) ==
    {c \in conversations : c.is_group = FALSE /\ Participants(c.id) = {a, b}}

\* The ids getOrCreateDirect has answered for the pair {a, b}, in either order.
AnsweredIds(a, b) == {e[2] : e \in {x \in directIds : x[1] = {a, b}}}

\* C2: at most one non-group conversation exists per unordered pair of users,
\* and no two getOrCreateDirect calls for the same pair, concurrent or not and
\* in either argument order, return distinct conversation ids.
C2_DirectUnique ==
    \A a, b \in UserIds :
        a # b => /\ Cardinality(DirectOf(a, b)) <= 1
                 /\ Cardinality(AnsweredIds(a, b)) <= 1

\* C10: in a sequential history every getOrCreateDirect(A,B) and
\* getOrCreateDirect(B,A) of distinct users returns one and the same id, which
\* names the only conversation of the pair, with exactly its two participant
\* rows: a repeated call adds no conversation and no participant row.
C10_DirectIdempotent ==
    \A a, b \in UserIds :
        (a # b /\ AnsweredIds(a, b) # {}) =>
            \E c \in conversations :
                /\ AnsweredIds(a, b) = {c.id}
                /\ DirectMatches(a, b) = {c}
                /\ DirectMatches(b, a) = {c}
                /\ {r \in conversation_participants : r.conversation_id = c.id}
                       = {PartRow(c.id, a), PartRow(c.id, b)}

\* getOrCreateDirect(u2,u1) has just answered the id that an earlier call
\* created for the pair, while a conversation of another pair exists as well.
C10_Witness ==
    /\ resp.op = "start" /\ resp.err = "OK"
    /\ resp.user = "u2" /\ resp.other = "u1"
    /\ AnsweredIds("u1", "u2") = {resp.id}
    /\ pc = [p \in Procs |-> "idle"]
    /\ DirectOf("u1", "u3") # {}
    /\ Cardinality(conversations) = 2

(* ------------------------------------------------------- groups: claims  *)
AllGroupIds == 1..(MaxGroups + 1)
AllConvIds == 1..(MaxConvs + 1)
Range(seq) == {seq[i] : i \in 1..Len(seq)}

\* No table holds a row of group g or of its conversation c.
NoGroupRows(g, c) ==
    /\ ~GroupExists(g)
    /\ GroupConvs(g) = {}
    /\ Members(g) = {}
    /\ \A r \in conversations : r.id # c
    /\ Participants(c) = {}

\* C3: whenever no addMember or removeMember is in progress, the member set of
\* every group equals the participant set of its conversation.
C3_LockStep ==
    (\A p \in Procs : pc[p] = "idle") =>
        \A g \in groups : \A c \in GroupConvs(g.id) : Members(g.id) = Participants(c)

\* C4 as claimed: whenever create answers an error, no row of the group it was
\* creating exists.
C4_FailedCreateLeavesNothing ==
    (resp.op = "create" /\ resp.err # "OK") =>
        /\ ~GroupExists(resp.group)
        /\ GroupConvs(resp.group) = {}
        /\ Members(resp.group) = {}

\* A group is absent altogether or has its row and exactly one conversation; no
\* membership or participant row exists without them.
NoPartialGroup ==
    /\ \A g \in AllGroupIds :
          (GroupExists(g) \/ GroupConvs(g) # {} \/ Members(g) # {}) =>
              (GroupExists(g) /\ Cardinality(GroupConvs(g)) = 1)
    /\ \A r \in conversation_participants :
          \E c \in conversations : c.id = r.conversation_id

\* A statement of the transaction, or its Commit, fails in this step for slot p.
TxFails(p) ==
    /\ pc[p] \in {"cg_group", "cg_conv", "cg_creator_gm", "cg_creator_cp",
                  "cg_member_gm", "cg_member_cp", "cg_commit"}
    /\ pc'[p] = "idle"

\* C4, amended: no reader ever sees a partial group; when a statement of the
\* transaction or its Commit fails, no row of the group exists afterwards; and
\* the rows of a created group become visible in one step, the members and the
\* participants both being the creator and the listed ids.
C4_AllOrNothing ==
    /\ []NoPartialGroup
    /\ [][\A p \in Procs, g \in AllGroupIds, c \in AllConvIds \cup {NULL} :
            /\ (TxFails(p) /\ req[p].group = g /\ req[p].conv = c) =>
                   (NoGroupRows(g, c))'
            /\ (pc[p] = "cg_commit" /\ pc'[p] = "cg_get"
                  /\ req[p].group = g /\ req[p].conv = c) =>
                   /\ NoGroupRows(g, c)
                   /\ (GroupExists(g))'
                   /\ (GroupConvs(g))' = {c}
                   /\ (Members(g))' = {req[p].user} \cup Range(req[p].ids)
                   /\ (Participants(c))' = {req[p].user} \cup Range(req[p].ids)
         ]_vars

\* create failed on an id listed twice, after the group row, the conversation
\* and three membership rows were written, while an earlier group exists.
C4_Witness ==
    /\ resp.op = "create" /\ resp.err = "Constraint"
    /\ ~GroupExists(resp.group)
    /\ Members(resp.group) = {}
    /\ \E g \in groups : g.id # resp.group /\ Members(g.id) # {}

(* ----------------------------------------------------- messages: claims  *)
Rank(st) == CASE st = "sent" -> 1 [] st = "received" -> 2 [] st = "read" -> 3

\* C1: the stored status of a message never decreases in the order
\* sent < received < read, in any step of any interleaving.
C1_StatusMonotonic ==
    [][\A r \in messages : \A t \in messages' :
          t.id = r.id => Rank(t.status) >= Rank(r.status)]_vars

\* The messages as markRead(c, u) must leave them.
AfterMarkRead(c, u) ==
    {IF r.conversation_id = c /\ r.sender_id # u THEN [r EXCEPT !.status = "read"] ELSE r
       : r \in messages}

\* C9: the status update of markRead(conversationId, userId) sets to 'read'
\* the messages of that conversation not sent by userId and changes no other
\* message and no other table; it succeeds also when no message qualifies (a
\* getFull that reached it answers OK).
C9_MarkReadFrame ==
    [][\A p \in Procs, c \in AllConvIds, u \in UserIds :
          (pc[p] = "mark_status" /\ pc'[p] # "mark_status"
             /\ req[p].conv = c /\ req[p].user = u) =>
                /\ messages' = AfterMarkRead(c, u)
                /\ UNCHANGED <<users, groups, group_members, conversations,
                               conversation_participants, comments>>
                /\ (req[p].op = "get" => resp' = [op |-> "get", user |-> u, conv |-> c,
                                                  err |-> "OK"])
      ]_vars

\* Luigi has just read conversation 1: Maria's message there is 'read', his own
\* is not.
C9_Witness ==
    /\ resp = [op |-> "get", user |-> "u2", conv |-> 1, err |-> "OK"]
    /\ \E r \in messages :
          r.conversation_id = 1 /\ r.sender_id = "u1" /\ r.status = "read"
    /\ \E r \in messages :
          r.conversation_id = 1 /\ r.sender_id = "u2" /\ r.status # "read"

(* ---------------------------------------------------- reactions: claims  *)
CommentsOf(rows, m, u) == {r \in rows : r.message_id = m /\ r.user_id = u}

C6_NoOrphanComment == \A r \in comments : MsgExists(r.message_id)

\* C7: delete answers NotFound only for an absent message and Forbidden only
\* for a message of another sender, changing no table in either case; it goes on
\* to its DELETE statements only for the sender's own message; and a message row
\* disappears only in the DELETE of a request made by its sender.
C7_DeleteBySenderOnly ==
    [][/\ \A m \in MsgIds, u \in UserIds :
            /\ resp' = [op |-> "delete", user |-> u, msg |-> m, err |-> "MessageNotFound"]
                  => (~MsgExists(m) /\ UNCHANGED tables)
            /\ resp' = [op |-> "delete", user |-> u, msg |-> m, err |-> "NotMessageOwner"]
                  => (MsgExists(m) /\ MsgOf(m).sender_id # u /\ UNCHANGED tables)
       /\ \A p \in Procs :
            (pc[p] = "idle" /\ pc'[p] = "dm_comments") =>
                \E r \in messages : r.id = req'[p].msg /\ r.sender_id = req'[p].user
       /\ \A r \in messages :
            (\A t \in messages' : t.id # r.id) =>
                \E p \in Procs :
                    /\ pc[p] = "dm_message" /\ req[p].msg = r.id /\ req[p].user = r.sender_id
                    /\ resp' = [op |-> "delete", user |-> r.sender_id, msg |-> r.id,
                                err |-> "OK"]
      ]_vars

\* Luigi has been refused the delete of Maria's message, which is still there
\* with his reaction to it.
C7_Witness ==
    /\ resp = [op |-> "delete", user |-> "u2", msg |-> 1, err |-> "NotMessageOwner"]
    /\ MsgExists(1) /\ MsgOf(1).sender_id = "u1"
    /\ CommentsOf(comments, 1, "u2") # {}

InConversation(c, u) ==
    \E r \in conversation_participants : r.conversation_id = c /\ r.user_id = u

\* C11: a getFull by a user who is not a participant is answered with the same
\* NotFound error and changes no table (no message status, no lastReadTime),
\* whether the conversation exists or not (a step that answers a getFull and
\* moves no request is the refusal at the participant check); a getFull that is
\* let through is by a participant.
C11_NotFoundAlike ==
    [][/\ (pc' = pc /\ resp'.op = "get") =>
             /\ ~InConversation(resp'.conv, resp'.user)
             /\ resp' = [op |-> "get", user |-> resp'.user, conv |-> resp'.conv,
                         err |-> "ConversationNotFound"]
             /\ UNCHANGED tables
       /\ \A p \in Procs :
             (pc[p] = "idle" /\ pc'[p] = "mark_time" /\ req'[p].op = "get") =>
                 InConversation(req'[p].conv, req'[p].user)
      ]_vars

\* Luigi has asked for conversation 2, which exists and which he is not in, and
\* got the answer he gets for conversation 3, which does not exist.
C11_Witness ==
    /\ resp = [op |-> "get", user |-> "u2", conv |-> 2, err |-> "ConversationNotFound"]
    /\ \E r \in conversations : r.id = 2
    /\ ~InConversation(2, "u2")
    /\ ~\E r \in conversations : r.id = 3

\* C12: every comment row on a stored message is by a participant of the
\* conversation that contains the message.
C12_ReactByParticipant ==
    \A r \in comments :
        MsgExists(r.message_id) =>
            InConversation(MsgOf(r.message_id).conversation_id, r.user_id)

\* C13: the content of the message of conversation 2 is only ever in messages
\* sent by participants of conversation 2.
C13_ForwardByParticipant ==
    \A r \in messages : r.content = "secret" => InConversation(2, r.sender_id)

(* --------------------------------------------------- membership: claims  *)
\* The row (g, u) of group_members exists.
InGroup(g, u) == [group_id |-> g, user_id |-> u] \in group_members

HasGroupRow(g) == \E r \in groups : r.id = g

\* The conversations paired with group g.
ConvsOfGroup(g) == {r.id : r \in {x \in conversations : x.is_group /\ x.group_id = g}}

\* C14: a getFull or a send that passes the participant check of a group's
\* conversation is by a member of the group; a user who has left and has not
\* been added again is none, also when the leave ran together with an addMember.
C14_LeftUserKeptOut ==
    \A p \in Procs :
        (pc[p] = "mark_time" /\ req[p].op \in {"get", "send"}) =>
            \A g \in groups :
                req[p].conv \in ConvsOfGroup(g.id) => InGroup(g.id, req[p].user)

\* C15: an addMember whose adder is not a member (the adder may be the user to
\* add) is answered NotAMember and changes no table; one that is let through is
\* by a member; and a membership row of an existing group appears only in the
\* INSERT of an addMember request for that group and user.
C15_AddByMemberOnly ==
    [][/\ (pc' = pc /\ resp'.op = "add") =>
             /\ resp'.err = "NotGroupMember"
             /\ ~InGroup(resp'.group, resp'.adder)
             /\ UNCHANGED tables
       /\ \A p \in Procs :
             (pc[p] = "idle" /\ pc'[p] = "ag_user") =>
                 InGroup(req'[p].group, req'[p].adder)
       /\ \A g \in TeamGroupIds, u \in UserIds :
             (HasGroupRow(g) /\ ~InGroup(g, u)
                /\ [group_id |-> g, user_id |-> u] \in group_members') =>
                 \E p \in Procs :
                     /\ pc[p] = "ag_gm" /\ req[p].op = "add"
                     /\ req[p].group = g /\ req[p].user = u
      ]_vars

\* Anna, who is not in the group, has tried to add herself and was refused.
C15_Witness ==
    /\ resp = [op |-> "add", user |-> "u3", adder |-> "u3", group |-> 1,
               err |-> "NotGroupMember"]
    /\ HasGroupRow(1) /\ ~InGroup(1, "u3") /\ ~InConversation(1, "u3")

\* C16: an addMember on a group id that no group has is answered GroupNotFound.
C16_AddToMissingGroup ==
    (resp.op = "add" /\ ~HasGroupRow(resp.group)) => resp.err = "GroupNotFound"

\* C17: in a sequential history, an addMember of a user who is already a member
\* (with the participant row) changes no table at any of its steps -- the
\* member set, the participant rows and their lastReadTime stay as they were --
\* and is answered OK.
C17_AddIdempotent ==
    [][\A p \in Procs :
          (/\ req[p].op = "add" /\ pc[p] \in {"ag_user", "ag_conv", "ag_gm", "ag_cp"}
           /\ HasGroupRow(req[p].group) /\ InGroup(req[p].group, req[p].user)
           /\ \A c \in ConvsOfGroup(req[p].group) : InConversation(c, req[p].user)) =>
              /\ UNCHANGED tables
              /\ pc'[p] = "idle" => resp'.err = "OK"
      ]_vars

\* Maria has added Luigi, who was a member: he is a member once, and his
\* participant row still has the time he last read the conversation.
C17_Witness ==
    /\ resp = [op |-> "add", user |-> "u2", adder |-> "u1", group |-> 1, err |-> "OK"]
    /\ InGroup(1, "u2")
    /\ {r \in conversation_participants : r.conversation_id = 1 /\ r.user_id = "u2"} =
          {[conversation_id |-> 1, user_id |-> "u2", last_read_time |-> 1]}

\* C18: a removeMember by a user who is not a member is answered NotAMember and
\* changes no table; one that is let through is by a member and is answered OK;
\* no step removes a group row or a conversation row, so the group and its
\* conversation outlive their last member.
C18_LeaveByMemberOnly ==
    [][/\ (pc' = pc /\ resp'.op = "leave") =>
             /\ resp'.err = "NotGroupMember"
             /\ ~InGroup(resp'.group, resp'.user)
             /\ UNCHANGED tables
       /\ \A p \in Procs :
             /\ (pc[p] = "idle" /\ pc'[p] = "rg_conv") =>
                   InGroup(req'[p].group, req'[p].user)
             /\ (pc[p] \in {"rg_conv", "rg_gm", "rg_cp"} /\ pc'[p] = "idle") =>
                   resp'.err = "OK"
       /\ groups \subseteq groups'
       /\ conversations \subseteq conversations'
      ]_vars

\* The last member has left: the group and its conversation exist, without
\* members and without participants.
C18_Witness ==
    /\ resp.op = "leave" /\ resp.group = 1 /\ resp.err = "OK"
    /\ \A u \in UserIds : ~InGroup(1, u) /\ ~InConversation(1, u)
    /\ HasGroupRow(1) /\ ConvsOfGroup(1) = {1}

\* C19: the commit of create stores one group row and one conversation row
\* whose members and participants are both the creator and the listed ids; and
\* every create the storage engine does not fail is answered OK, whatever the
\* list: the creator listed, an id listed twice.
C19_CreateSucceeds ==
    [][\A p \in Procs :
          /\ (pc[p] = "cg_commit" /\ pc'[p] = "cg_get") =>
                /\ tx[p].groups = {[id |-> req[p].group, name |-> req[p].name]}
                /\ tx[p].conversations = {ConvRow(req[p].conv, TRUE, req[p].group)}
                /\ {r.user_id : r \in tx[p].group_members} =
                      {req[p].user} \cup Range(req[p].ids)
                /\ {r.user_id : r \in tx[p].conversation_participants} =
                      {req[p].user} \cup Range(req[p].ids)
          /\ (req[p].op = "create" /\ pc[p] # "idle" /\ pc'[p] = "idle"
                /\ resp'.err # "StorageFailure") => resp'.err = "OK"
      ]_vars

\* C20: the two DELETEs of removeMember(g, u) remove the row (g, u) of
\* group_members and u's participant row in g's conversation, and nothing else:
\* no other member or participant, no group, conversation, message or comment,
\* no row of another conversation.
C20_LeaveFrame ==
    [][\A p \in Procs :
          /\ (pc[p] = "rg_gm" /\ pc'[p] # "rg_gm") =>
                /\ group_members' =
                      group_members \ {[group_id |-> req[p].group, user_id |-> req[p].user]}
                /\ UNCHANGED <<users, groups, conversations, conversation_participants,
                               messages, comments>>
          /\ (pc[p] = "rg_cp" /\ pc'[p] # "rg_cp") =>
                /\ conversation_participants' =
                      {r \in conversation_participants :
                          ~(r.user_id = req[p].user
                              /\ r.conversation_id \in ConvsOfGroup(req[p].group))}
                /\ UNCHANGED <<users, groups, group_members, conversations,
                               messages, comments>>
      ]_vars

\* Luigi has left the group: Maria is still a member and a participant, the
\* message and his reaction are there, and he is still in his conversation
\* with Maria.
C20_Witness ==
    /\ resp = [op |-> "leave", user |-> "u2", group |-> 1, err |-> "OK"]
    /\ ~InGroup(1, "u2") /\ ~InConversation(1, "u2")
    /\ InGroup(1, "u1") /\ InConversation(1, "u1")
    /\ InConversation(2, "u2") /\ InConversation(2, "u1")
    /\ HasGroupRow(1) /\ ConvsOfGroup(1) = {1}
    /\ MsgExists(1) /\ comments # {}

(* ------------------------------------------- direct conversations: pair  *)
\* C30: every id that getOrCreateDirect(userA, userB) has answered names a
\* non-group conversation whose participant set is exactly {userA, userB};
\* with userA = userB it is never a conversation shared with someone else.
C30_AnswerIsThePair ==
    \A e \in directIds :
        \E c \in conversations :
            /\ c.id = e[2]
            /\ c.is_group = FALSE
            /\ Participants(c.id) = e[1]

(* ---------------------------------------------------- reactions: unreact  *)
\* C25: unreact(messageId, userId) fails with CommentNotFound and changes
\* nothing when the user has no reaction on the message; otherwise it deletes
\* exactly that user's reaction and leaves every other reaction and the
\* message unchanged, so that a second unreact in a row finds nothing.
C25_UnreactExact ==
    [][resp'.op = "uncomment" =>
          LET mine == CommentsOf(comments, resp'.msg, resp'.user)
          IN  /\ resp'.err \in {"OK", "CommentNotFound"}
              /\ resp'.err = "CommentNotFound" <=> mine = {}
              /\ resp'.err = "CommentNotFound" => UNCHANGED tables
              /\ resp'.err = "OK" =>
                    /\ Cardinality(mine) = 1
                    /\ comments' = comments \ mine
                    /\ UNCHANGED <<users, groups, group_members, conversations,
                                   conversation_participants, messages>>
              /\ \A r \in comments' :
                    ~(r.message_id = resp'.msg /\ r.user_id = resp'.user)
      ]_vars

\* Maria's second unreact on message 2 has failed: her reaction, there at the
\* start, is gone, while the message and Luigi's reaction on it remain.
C25_Witness ==
    /\ resp = [op |-> "uncomment", user |-> "u1", msg |-> 2, err |-> "CommentNotFound"]
    /\ MsgExists(2)
    /\ {r \in comments : r.message_id = 2}
           = {[message_id |-> 2, user_id |-> "u2", emoticon |-> "like"]}

(* --------------------------------------------------------------- users  *)
\* The login and rename handlers accept names of 3 to 16 bytes.
MinNameLen == 3
MaxNameLen == 16
ValidName(n) == ~(Len(n) < MinNameLen \/ Len(n) > MaxNameLen)

\* uuid.NewV4(): an id no user row has; the users table never loses a row.
UserIdSeq == <<"u1", "u2", "u3">>
NewUserId == UserIdSeq[Cardinality(users) + 1]

\* (mutant of UserByName) the lookup finds no row.
UserByNameNone(n) == {}

\* SELECT id, name, photo FROM users WHERE name = ?
UserByName(n) == {r \in users : r.name = n}

\* (mutant of UniqueViolation) the name column without its UNIQUE constraint.
NoUniqueConstraint(n, id) == FALSE

\* users.name is UNIQUE: a write giving row `id` the name n fails when another
\* row holds n.
UniqueViolation(n, id) == \E r \in users : r.name = n /\ r.id # id

UsersFrame ==
    UNCHANGED <<groups, group_members, conversations, conversation_participants,
                messages, comments, counters, tx, goroutines, directIds>>

\* The store operation CreateUser(name), called as it is.
CreateUser(p, n) ==
    /\ pc[p] = "idle"
    /\ req' = [req EXCEPT ![p] = [op |-> "create", name |-> n]]
    /\ Goto(p, "cu_check")
    /\ UNCHANGED users /\ UsersFrame

\* POST /session: the handler checks the length of the name and calls CreateUser.
DoLogin(p, n) ==
    /\ pc[p] = "idle"
    /\ IF ValidName(n)
       THEN /\ req' = [req EXCEPT ![p] = [op |-> "login", name |-> n]]
            /\ Goto(p, "cu_check")
       ELSE Reply(p, [op |-> "login", name |-> n, err |-> "InvalidInput", id |-> ""])
    /\ UNCHANGED users /\ UsersFrame

\* CreateUser, the pre-check: an existing user's id is the answer.
CuCheck(p) ==
    /\ pc[p] = "cu_check"
    /\ IF UserByName(req[p].name) # {}
       THEN \E r \in UserByName(req[p].name) :
               Reply(p, [op |-> req[p].op, name |-> req[p].name, err |-> "OK", id |-> r.id])
       ELSE Goto(p, "cu_insert") /\ UNCHANGED req
    /\ UNCHANGED users /\ UsersFrame

\* CreateUser, the INSERT under a fresh uuid.
CuInsert(p) ==
    /\ pc[p] = "cu_insert"
    /\ Cardinality(users) < Len(UserIdSeq)
    /\ IF UniqueViolation(req[p].name, NewUserId)
       THEN /\ Reply(p, [op |-> req[p].op, name |-> req[p].name,
                         err |-> "Constraint", id |-> ""])
            /\ UNCHANGED users
       ELSE /\ users' = users \cup {[id |-> NewUserId, name |-> req[p].name]}
            /\ Reply(p, [op |-> req[p].op, name |-> req[p].name,
                         err |-> "OK", id |-> NewUserId])
    /\ UsersFrame

\* PUT /users/{userId}/username by the user the bearer token names: the handler
\* checks the length of the new name and calls UpdateUserName.
SetMyUserName(p, u, n) ==
    /\ pc[p] = "idle"
    /\ IF ValidName(n)
       THEN /\ req' = [req EXCEPT ![p] = [op |-> "rename", user |-> u, name |-> n]]
            /\ Goto(p, "un_check")
       ELSE Reply(p, [op |-> "rename", user |-> u, name |-> n, err |-> "InvalidInput"])
    /\ UNCHANGED users /\ UsersFrame

\* UpdateUserName, the pre-check: the name is taken when a row of another id
\* holds it.
UnCheck(p) ==
    /\ pc[p] = "un_check"
    /\ IF \E r \in UserByName(req[p].name) : r.id # req[p].user
       THEN Reply(p, [op |-> "rename", user |-> req[p].user, name |-> req[p].name,
                      err |-> "UsernameTaken"])
       ELSE Goto(p, "un_update") /\ UNCHANGED req
    /\ UNCHANGED users /\ UsersFrame

\* UpdateUserName, the UPDATE: no row affected is ErrUserNotFound.
UnUpdate(p) ==
    /\ pc[p] = "un_update"
    /\ IF ~UserExists(req[p].user)
       THEN /\ Reply(p, [op |-> "rename", user |-> req[p].user, name |-> req[p].name,
                         err |-> "UserNotFound"])
            /\ UNCHANGED users
       ELSE IF UniqueViolation(req[p].name, req[p].user)
       THEN /\ Reply(p, [op |-> "rename", user |-> req[p].user, name |-> req[p].name,
                         err |-> "Constraint"])
            /\ UNCHANGED users
       ELSE /\ users' = {IF r.id = req[p].user THEN [r EXCEPT !.name = req[p].name] ELSE r :
                            r \in users}
            /\ Reply(p, [op |-> "rename", user |-> req[p].user, name |-> req[p].name,
                         err |-> "OK"])
    /\ UsersFrame

\* A name too short, three names of ordinary length, a name too long.
LoginNames == {"Al", "Maria", "Luigi", "Anna", "Massimiliano Rossi"}

\* The store after construction: no user yet.
InitUsers ==
    /\ users = {}
    /\ EmptyStore

UserStep(p) ==
    \/ \E n \in LoginNames : DoLogin(p, n)
    \/ \E u \in UserIds, n \in LoginNames : SetMyUserName(p, u, n)
    \/ CuCheck(p)
    \/ CuInsert(p)
    \/ UnCheck(p)
    \/ UnUpdate(p)

\* Concurrent logins and renames.
NextUsers == \E p \in Procs : UserStep(p)
SpecUsers == InitUsers /\ [][NextUsers]_vars

\* Logins and renames one after the other.
NextUsersSeq == \E p \in Procs : Quiet(p) /\ UserStep(p)
SpecUsersSeq == InitUsers /\ [][NextUsersSeq]_vars

\* Logins only, one after the other.
NextLoginSeq ==
    \E p \in Procs :
        /\ Quiet(p)
        /\ \/ \E n \in LoginNames : DoLogin(p, n)
           \/ CuCheck(p)
           \/ CuInsert(p)
SpecLoginSeq == InitUsers /\ [][NextLoginSeq]_vars

\* The store operation CreateUser called with any name, concurrently.
NextStore ==
    \E p \in Procs :
        \/ \E n \in LoginNames : CreateUser(p, n)
        \/ CuCheck(p)
        \/ CuInsert(p)
SpecStore == InitUsers /\ [][NextStore]_vars

(* ------------------------------------------------------- users: claims  *)
NamedRows(rows, n) == {r \in rows : r.name = n}

\* No two user rows share an id or a name.
OneRowPerIdAndName ==
    \A r1, r2 \in users : (r1.id = r2.id \/ r1.name = r2.name) => r1 = r2

\* C21: createOrGetUser is idempotent: in a sequential history every call with
\* a valid name N succeeds and answers the id of the one user row named N; a
\* call that finds the row changes nothing and no row is ever removed or
\* changed, so repeated calls answer the same id and calls with different
\* names answer different ids.
C21_LoginIdempotent ==
    /\ []OneRowPerIdAndName
    /\ [][/\ users \subseteq users'
          /\ (resp'.op = "login" /\ ValidName(resp'.name)) =>
                /\ resp'.err = "OK"
                /\ NamedRows(users', resp'.name) = {[id |-> resp'.id, name |-> resp'.name]}
                /\ NamedRows(users, resp'.name) # {} => users' = users
         ]_vars

\* Maria logs in again after Luigi has logged in: she is answered the id of
\* her first login and there are still two users.
C21_Witness ==
    /\ resp = [op |-> "login", name |-> "Maria", err |-> "OK", id |-> "u1"]
    /\ users = {[id |-> "u1", name |-> "Maria"], [id |-> "u2", name |-> "Luigi"]}

\* C22: in every reachable state no two users have the same name, under every
\* interleaving of concurrent createOrGetUser and rename calls.
C22_UniqueNames ==
    \A r1, r2 \in users : r1.name = r2.name => r1.id = r2.id

\* A rename passed the pre-check together with another writer of the same name
\* and was refused by the unique constraint: the name belongs to the other user.
C22_Witness ==
    /\ resp.op = "rename" /\ resp.err = "Constraint"
    /\ Cardinality(users) >= 2
    /\ \E r \in users : r.name = resp.name /\ r.id # resp.user

\* C23: rename(userId, newName) fails with NotFound whenever userId does not
\* exist, whether or not newName is in use, fails with NameTaken when newName
\* belongs to a different user, in both cases changing no user record; and
\* renaming a user to their own current name succeeds.
C23_RenameErrors ==
    [][(resp'.op = "rename" /\ ValidName(resp'.name)) =>
          LET exists == \E r \in users : r.id = resp'.user
              taken == \E r \in users : r.name = resp'.name /\ r.id # resp'.user
              own == \E r \in users : r.name = resp'.name /\ r.id = resp'.user
          IN  /\ ~exists => (resp'.err = "UserNotFound" /\ users' = users)
              /\ (exists /\ taken) => (resp'.err = "UsernameTaken" /\ users' = users)
              /\ own => resp'.err = "OK"
      ]_vars

\* C24: the store's createOrGetUser(name) fails with InvalidInput and creates
\* no user when the name is shorter than 3 or longer than 16, whoever calls it;
\* so every stored user name has a length from 3 to 16.
C24_StoreChecksLength ==
    /\ [](\A r \in users : Len(r.name) >= 3 /\ Len(r.name) <= 16)
    /\ [][(resp'.op = "create" /\ (Len(resp'.name) < 3 \/ Len(resp'.name) > 16)) =>
             (resp'.err = "InvalidInput" /\ users' = users)]_vars

(* ------------------------------------------- groups and conversations     *)
\* Maria creates groups, any statement of which may fail, while Luigi starts
\* conversations and leaves groups.
NextKinds ==
    \/ \E ids \in {<< >>, <<"u2">>} : CreateGroup("p1", "u1", "Team", ids)
    \/ CgInsertGroup("p1")
    \/ CgInsertConv("p1")
    \/ CgInsertCreatorMember("p1")
    \/ CgInsertCreatorParticipant("p1")
    \/ CgInsertMember("p1")
    \/ CgInsertParticipant("p1")
    \/ CgCommit("p1")
    \/ CgGetGroup("p1")
    \/ CgStatementFails("p1")
    \/ CgGetGroupFails("p1")
    \/ \E b \in UserIds : StartConversation("p2", "u2", b)
    \/ GocdSelectFound("p2")
    \/ GocdSelectMissing("p2")
    \/ GocdInsertConv("p2")
    \/ GocdInsertUser("p2")
    \/ GocdInsertOther("p2")
    \/ GocdCommit("p2")
    \/ \E g \in GroupIds : LeaveGroup("p2", "u2", g)
    \/ RgSelectConv("p2")
    \/ RgDeleteMember("p2")
    \/ RgDeleteParticipant("p2")
SpecKinds == InitGroups /\ [][NextKinds]_vars

\* Each group has exactly one conversation, a group conversation; a conversation
\* that is not a group conversation names no group.
OneConversationPerGroup ==
    /\ \A g \in groups :
          \E c \in conversations :
              /\ {x \in conversations : x.group_id = g.id} = {c}
              /\ c.is_group = TRUE
    /\ \A c \in conversations : c.is_group = FALSE => c.group_id = NULL

\* C29: in every reachable state each group has exactly one conversation, with
\* isGroup true and groupId the group's id, every conversation with isGroup
\* false has no groupId, and no operation deletes a group or a conversation.
C29_GroupsAndConversations ==
    /\ []OneConversationPerGroup
    /\ [][/\ {g.id : g \in groups} \subseteq {g.id : g \in groups'}
          /\ conversations \subseteq conversations']_vars

\* Two groups with their conversations and a direct conversation of Luigi and
\* Anna exist, after Luigi has left group 1.
C29_Witness ==
    /\ Cardinality(groups) = 2
    /\ Cardinality({c \in conversations : c.is_group}) = 2
    /\ \E c \in conversations : ~c.is_group /\ Participants(c.id) = {"u2", "u3"}
    /\ resp.op = "leave" /\ resp.err = "OK" /\ resp.group = 1

(* ------------------------------------------------- forwarding: history  *)
\* The store after the three logins, the conversations 1 of Maria and Luigi
\* and 2 of Luigi and Anna, Maria's send(1, u1, "hi"), delivered, and Luigi's
\* reaction to it; nobody has read a conversation yet.
InitForward ==
    /\ nextConv = 3 /\ nextGroup = 1 /\ nextMsg = 2 /\ clock = 1
    /\ users = {UserRow(u) : u \in UserIds}
    /\ groups = {} /\ group_members = {}
    /\ conversations = {ConvRow(1, FALSE, NULL), ConvRow(2, FALSE, NULL)}
    /\ conversation_participants =
          {PartRow(1, "u1"), PartRow(1, "u2"), PartRow(2, "u2"), PartRow(2, "u3")}
    /\ messages = {[MsgRow(1, 1, "u1", "hi", "", NULL) EXCEPT !.status = "received"]}
    /\ comments = {[message_id |-> 1, user_id |-> "u2", emoticon |-> "like"]}
    /\ pc = [p \in Procs |-> "idle"]
    /\ req = [p \in Procs |-> NoReq]
    /\ tx = [p \in Procs |-> NoTx]
    /\ resp = NoResp
    /\ directIds = {}
    /\ goroutines = {}

ForwardStep(p) ==
    \/ \E c \in ConvIds, m \in MsgIds, t \in ConvIds : ForwardMessage(p, Of[p], c, m, t)
    \/ \E m \in MsgIds, e \in {"", "heart"} : p = "p2" /\ CommentMessage(p, Of[p], 1, m, e)
    \/ p = "p1" /\ SendMessage(p, Of[p], 1, "ciao", "", NULL)
    \/ \E m \in MsgIds : DeleteMessage(p, Of[p], m)
    \/ MarkReadTime(p)
    \/ MarkReadStatus(p)
    \/ FwGetMessage(p)
    \/ FwTargetCheck(p)
    \/ CreateMessageInsert(p)
    \/ CreateMessageReturn(p)
    \/ AddCommentCheck(p)
    \/ AddCommentInsert(p)
    \/ DeleteMessageComments(p)
    \/ DeleteMessageRow(p)

\* Forwarding, reacting, sending and deleting, one request after the other,
\* while the goroutines of the sends run.
NextForward ==
    \/ \E p \in Procs : Quiet(p) /\ ForwardStep(p)
    \/ \E m \in MsgIds : UpdateMessageStatusForRecipients(m)
SpecForward == InitForward /\ [][NextForward]_vars

(* -------------------------------------------------- forwarding: claims  *)
\* Message id m has been given out and no message has it: it was deleted.
Gone(m) == m < nextMsg /\ ~(\E r \in messages : r.id = m)

\* Slot p takes a step of a forward or react request that names a deleted message.
StepOnGone(p) ==
    /\ pc[p] # "idle" /\ pc'[p] # pc[p]
    /\ req[p].op \in {"forward", "comment"}
    /\ Gone(req[p].msg)

\* The messages are the same but for their status.
SameButStatus ==
    /\ {r.id : r \in messages'} = {r.id : r \in messages}
    /\ \A r \in messages : \E r2 \in messages' : r2 = [r EXCEPT !.status = r2.status]

ForwardStepOf(p) ==
    /\ pc[p] # "idle" /\ pc'[p] # pc[p]
    /\ req[p].op = "forward"

\* C27 as claimed: no step of a forward changes the source message or a comment.
C27_SourceUntouched ==
    [][\A p \in Procs :
          ForwardStepOf(p) =>
              /\ comments' = comments
              /\ \A r \in messages : r.id = req[p].msg => r \in messages'
      ]_vars

\* C27: a forward creates exactly one new message, in the target conversation,
\* with the source's content and photo, the forwarder as sender, no replyTo and
\* status 'sent'; it changes no comment and nothing of another message, the
\* source included, but the status: the reading of the conversation named with
\* the source and of the target conversation sets the unread messages of
\* others in them to 'read'.
C27_ForwardCopies ==
    [][\A p \in Procs :
          ForwardStepOf(p) =>
              /\ comments' = comments
              /\ IF pc[p] = "cm_insert"
                 THEN \E new \in messages' :
                         /\ messages' = messages \cup {new}
                         /\ ~(\E r \in messages : r.id = new.id)
                         /\ new.conversation_id = req[p].target
                         /\ new.sender_id = req[p].user
                         /\ new.reply_to = NULL
                         /\ new.status = "sent"
                         /\ \E src \in messages :
                               /\ src.id = req[p].msg
                               /\ new.content = src.content
                               /\ new.photo = src.photo
                 ELSE /\ SameButStatus
                      /\ \A r \in messages, r2 \in messages' :
                            (r.id = r2.id /\ r2.status # r.status) =>
                                /\ pc[p] = "mark_status"
                                /\ r2.status = "read"
                                /\ r.conversation_id = req[p].conv
                                /\ r.sender_id # req[p].user
              /\ (pc'[p] = "idle" /\ resp'.err = "OK") =>
                    /\ resp'.status = "sent"
                    /\ \E r \in messages :
                          r.id = resp'.msg /\ r.conversation_id = req[p].target
      ]_vars

\* Luigi has forwarded Maria's message 1 from conversation 1 to conversation 2:
\* the copy is his, and message 1, with his reaction, is now read.
C27_Witness ==
    /\ resp.op = "forward" /\ resp.err = "OK" /\ resp.user = "u2"
    /\ \E new \in messages :
          /\ new.id = resp.msg /\ new.conversation_id = 2
          /\ new.sender_id = "u2" /\ new.content = "hi"
    /\ \E src \in messages : src.id = 1 /\ src.sender_id = "u1" /\ src.status = "read"
    /\ comments = {[message_id |-> 1, user_id |-> "u2", emoticon |-> "like"]}

(* ------------------------------------------------- storage failures     *)
\* The request record once a statement of its operation has returned an error.
WithFailure(r) == [x \in DOMAIN r \cup {"failed"} |-> IF x = "failed" THEN TRUE ELSE r[x]]
Failed(r) == "failed" \in DOMAIN r

\* A statement of MarkConversationAsRead fails: it returns the error without
\* executing what follows, and GetConversation assigns the error to `_`.
MarkReadFails(p) ==
    /\ pc[p] \in {"mark_time", "mark_status"}
    /\ req' = [req EXCEPT ![p] = WithFailure(@)]
    /\ Goto(p, "mark_failed")
    /\ UNCHANGED <<tables, counters, tx, goroutines, directIds>>

\* GetConversation returns &conv, nil and the handler goes on.
MarkReadDiscarded(p) ==
    /\ pc[p] = "mark_failed"
    /\ AfterGetConversation(p)
    /\ UNCHANGED <<tables, counters, tx, goroutines, directIds>>

\* The UPDATE of the goroutine fails: both results are assigned to `_`.
UpdateMessageStatusFails(m) ==
    /\ m \in goroutines
    /\ goroutines' = goroutines \ {m}
    /\ resp' = NoResp
    /\ UNCHANGED <<tables, counters, pc, req, tx, directIds>>

\* The pre-check of CreateUser fails: err is not nil, so CreateUser goes on to
\* the INSERT.
CuCheckFails(p) ==
    /\ pc[p] = "cu_check"
    /\ req' = [req EXCEPT ![p] = WithFailure(@)]
    /\ Goto(p, "cu_insert")
    /\ UNCHANGED users /\ UsersFrame

\* The store after Maria and Luigi have logged in and started conversation 1.
InitFaults ==
    /\ nextConv = 2 /\ nextGroup = 1 /\ nextMsg = 1 /\ clock = 1
    /\ users = {UserRow("u1"), UserRow("u2")}
    /\ groups = {} /\ group_members = {}
    /\ conversations = {ConvRow(1, FALSE, NULL)}
    /\ conversation_participants = {PartRow(1, "u1"), PartRow(1, "u2")}
    /\ messages = {} /\ comments = {}
    /\ pc = [p \in Procs |-> "idle"]
    /\ req = [p \in Procs |-> NoReq]
    /\ tx = [p \in Procs |-> NoTx]
    /\ resp = NoResp
    /\ directIds = {}
    /\ goroutines = {}

\* Maria and Luigi read and send, Luigi's slot also serves logins; any of the
\* statements named above may fail.
NextFaults ==
    \/ \E p \in Procs : GetConversation(p, Of[p], 1)
    \/ \E p \in Procs : SendMessage(p, Of[p], 1, "hi", "", NULL)
    \/ \E p \in Procs : MarkReadTime(p)
    \/ \E p \in Procs : MarkReadStatus(p)
    \/ \E p \in Procs : MarkReadFails(p)
    \/ \E p \in Procs : MarkReadDiscarded(p)
    \/ \E p \in Procs : CreateMessageInsert(p)
    \/ \E p \in Procs : CreateMessageReturn(p)
    \/ \E m \in MsgIds : UpdateMessageStatusForRecipients(m)
    \/ \E m \in MsgIds : UpdateMessageStatusFails(m)
    \/ \E n \in {"Maria", "Anna"} : DoLogin("p2", n)
    \/ CuCheck("p2")
    \/ CuCheckFails("p2")
    \/ CuInsert("p2")
SpecFaults == InitFaults /\ [][NextFaults]_vars

\* C28: no operation reports success after one of its storage statements
\* failed: a request in which a statement has returned an error does not
\* answer OK, the mark-read of getFull and the pre-check of createOrGetUser
\* included, and a failed post-send status update is reported.
C28_FailuresReported ==
    [][/\ \A p \in Procs :
             (pc[p] # "idle" /\ pc'[p] = "idle" /\ Failed(req[p])) => resp'.err # "OK"
       /\ \A m \in MsgIds :
             (/\ m \in goroutines /\ m \notin goroutines'
              /\ \E r \in messages : r.id = m /\ r.status = "sent" /\ r \in messages')
                 => (resp'.op # "none" /\ resp'.err # "OK")
      ]_vars

(* ---------------------------------------------------- users: the races   *)
\* C33: when a rename loses the race for a name, another user having acquired
\* newName between the rename's pre-check and its update, the rename fails with
\* the NameTaken conflict and the renaming user keeps their previous name.
C33_LostRaceIsNameTaken ==
    [][\A p \in Procs :
          (/\ pc[p] = "un_update" /\ pc'[p] = "idle"
           /\ \E r \in users : r.id = req[p].user
           /\ \E r \in users : r.name = req[p].name /\ r.id # req[p].user)
              => (resp'.err = "UsernameTaken" /\ users' = users)
      ]_vars

\* Concurrent logins.
NextLogin ==
    \E p \in Procs :
        \/ \E n \in LoginNames : DoLogin(p, n)
        \/ CuCheck(p)
        \/ CuInsert(p)
SpecLogin == InitUsers /\ [][NextLogin]_vars

\* C34: concurrent createOrGetUser calls with the same name all succeed, with
\* the id of the user of that name: no login with a valid name gets an error.
C34_ConcurrentLoginSucceeds ==
    [][(resp'.op = "login" /\ ValidName(resp'.name)) =>
          /\ resp'.err = "OK"
          /\ \E r \in users' : r.name = resp'.name /\ r.id = resp'.id
      ]_vars

(* ------------------------------------------------------ message bodies  *)
\* Maria sends to conversation 1 text, a photo, both or neither, while Luigi
\* forwards its messages within it.
NextBodies ==
    \/ \E content \in {"", "hi"}, photo \in {"", "img"} :
          SendMessage("p1", "u1", 1, content, photo, NULL)
    \/ \E m \in MsgIds : ForwardMessage("p2", "u2", 1, m, 1)
    \/ \E p \in Procs : MarkReadTime(p)
    \/ \E p \in Procs : MarkReadStatus(p)
    \/ \E p \in Procs : FwGetMessage(p)
    \/ \E p \in Procs : FwTargetCheck(p)
    \/ \E p \in Procs : CreateMessageInsert(p)
    \/ \E p \in Procs : CreateMessageReturn(p)
    \/ \E m \in MsgIds : UpdateMessageStatusForRecipients(m)
SpecBodies == InitChat /\ [][NextBodies]_vars

\* C35: in every reachable state every stored message has non-empty content
\* or a non-empty photo: no send or forward persists a message with neither.
C35_MessageHasBody ==
    \A r \in messages : r.content # "" \/ r.photo # ""

\* A send with neither content nor photo has been refused, while a photo
\* without text is stored together with its forwarded copy.
C35_Witness ==
    /\ resp.op = "send" /\ resp.err = "BadRequest"
    /\ Cardinality({r \in messages : r.content = "" /\ r.photo = "img"}) = 2

(* ------------------------------------------------- users that are none  *)
\* The store after Maria and Luigi have logged in; no user has the id u3, which
\* a request can still carry as bearer token or name in its body.
InitStrangers ==
    /\ users = {UserRow("u1"), UserRow("u2")}
    /\ EmptyStore

\* Maria creates groups listing u2 or u3; requests with the bearer token u2 or
\* u3 start a conversation with Maria and send to a conversation.
NextStrangers ==
    \/ \E ids \in {<<"u2">>, <<"u3">>} : CreateGroup("p1", "u1", "Team", ids)
    \/ CgInsertGroup("p1")
    \/ CgInsertConv("p1")
    \/ CgInsertCreatorMember("p1")
    \/ CgInsertCreatorParticipant("p1")
    \/ CgInsertMember("p1")
    \/ CgInsertParticipant("p1")
    \/ CgCommit("p1")
    \/ CgGetGroup("p1")
    \/ \E a \in {"u2", "u3"}, b \in {"u1", "u3"} : StartConversation("p2", a, b)
    \/ GocdSelectFound("p2")
    \/ GocdSelectMissing("p2")
    \/ GocdInsertConv("p2")
    \/ GocdInsertUser("p2")
    \/ GocdInsertOther("p2")
    \/ GocdCommit("p2")
    \/ \E a \in {"u2", "u3"}, c \in ConvIds : SendMessage("p2", a, c, "hi", "", NULL)
    \/ MarkReadTime("p2")
    \/ MarkReadStatus("p2")
    \/ CreateMessageInsert("p2")
    \/ CreateMessageReturn("p2")
    \/ \E m \in MsgIds : UpdateMessageStatusForRecipients(m)
SpecStrangers == InitStrangers /\ [][NextStrangers]_vars

\* C36: when send returns an error to its caller, no message row has been
\* added to the store.
C36_FailedSendAddsNothing ==
    [][\A p \in Procs :
          (/\ pc[p] # "idle" /\ pc'[p] = "idle"
           /\ req[p].op = "send" /\ resp'.err # "OK")
              => ~(\E r \in messages' : r.id = req[p].msg)
      ]_vars

\* C39: in every reachable state every group member, every conversation
\* participant and every message sender is the id of an existing user.
C39_RowsNameUsers ==
    /\ \A r \in group_members : \E u \in users : u.id = r.user_id
    /\ \A r \in conversation_participants : \E u \in users : u.id = r.user_id
    /\ \A r \in messages : \E u \in users : u.id = r.sender_id

(* ------------------------------------------------ sending while leaving  *)
\* A member sends to the group's conversation in one request and leaves the
\* group in another.
NextSendLeave ==
    \/ \E u \in {"u1", "u2"} : SendMessage("p1", u, 1, "hi", "", NULL)
    \/ MarkReadTime("p1")
    \/ MarkReadStatus("p1")
    \/ CreateMessageInsert("p1")
    \/ CreateMessageReturn("p1")
    \/ \E m \in MsgIds : UpdateMessageStatusForRecipients(m)
    \/ \E u \in {"u1", "u2"} : LeaveGroup("p2", u, 1)
    \/ RgSelectConv("p2")
    \/ RgDeleteMember("p2")
    \/ RgDeleteParticipant("p2")
SpecSendLeave == InitTeam /\ [][NextSendLeave]_vars

\* C32: every message is inserted by a user who is a participant of the target
\* conversation at the moment of the insert, also when the send is interleaved
\* with that user's removeMember.
C32_SenderIsParticipant ==
    [][\A p \in Procs :
          (pc[p] = "cm_insert" /\ pc'[p] # "cm_insert") =>
              \E r \in conversation_participants :
                  r.conversation_id = req[p].conv /\ r.user_id = req[p].user
      ]_vars

(* ----------------------------------------------------- the empty group    *)
\* C38: once a group has no members, its member set and its conversation's
\* participant set stay empty in every later state, under every interleaving
\* of addMember and removeMember.
C38_EmptyGroupStaysEmpty ==
    [][\A g \in groups :
          {r \in group_members : r.group_id = g.id} = {} =>
              /\ {r \in group_members' : r.group_id = g.id} = {}
              /\ \A c \in ConvsOfGroup(g.id) :
                    {r \in conversation_participants : r.conversation_id = c} = {} =>
                        {r \in conversation_participants' : r.conversation_id = c} = {}
      ]_vars

(* --------------------------------------------------- rejected requests    *)
RejectStep(p) ==
    \/ \E content \in {"", "hi"} : SendMessage(p, Of[p], 1, content, "", NULL)
    \/ \E m \in MsgIds, e \in {"", "like"} : CommentMessage(p, Of[p], 1, m, e)
    \/ \E m \in MsgIds, t \in AccessConvIds : ForwardMessage(p, Of[p], 1, m, t)
    \/ MarkReadTime(p)
    \/ MarkReadStatus(p)
    \/ FwGetMessage(p)
    \/ FwTargetCheck(p)
    \/ CreateMessageInsert(p)
    \/ CreateMessageReturn(p)
    \/ AddCommentCheck(p)
    \/ AddCommentInsert(p)

\* Sends, reactions and forwards out of conversation 1, valid and invalid, one
\* request after the other, while the goroutines of the sends run.
NextRejects ==
    \/ \E p \in Procs : Quiet(p) /\ RejectStep(p)
    \/ \E m \in MsgIds : UpdateMessageStatusForRecipients(m)
SpecRejects == InitForward /\ [][NextRejects]_vars

\* The request of slot p is one that will be rejected: a send without content
\* and photo, a react without emoticon or to an unknown message, a forward of an
\* unknown message or to a conversation the requester is not in.
Doomed(p) ==
    \/ req[p].op = "send" /\ req[p].content = "" /\ req[p].photo = ""
    \/ /\ req[p].op = "comment"
       /\ (req[p].emoticon = "" \/ ~(\E r \in messages : r.id = req[p].msg))
    \/ /\ req[p].op = "forward" /\ req[p].stage = "source"
       /\ \/ ~(\E r \in messages : r.id = req[p].msg)
          \/ ~(\E r \in conversation_participants :
                  r.conversation_id = req[p].target /\ r.user_id = req[p].user)

\* C37 as claimed: no step of a request that is rejected changes a row.
C37_RejectedChangesNothing ==
    [][\A p \in Procs :
          (pc[p] # "idle" /\ pc'[p] # pc[p] /\ Doomed(p)) => UNCHANGED tables
      ]_vars

(* --------------------------------------------------- who marks read       *)
\* C31: a message's status becomes 'read' only in the mark-read step of a
\* request by a user who is a participant of the message's conversation and is
\* not the message's sender.
C31_ReadOnlyByOtherParticipant ==
    [][\A r \in messages, r2 \in messages' :
          (r.id = r2.id /\ r.status # "read" /\ r2.status = "read") =>
              \E p \in Procs :
                  /\ pc[p] = "mark_status" /\ pc'[p] # "mark_status"
                  /\ req[p].conv = r.conversation_id
                  /\ req[p].user # r.sender_id
                  /\ \E q \in conversation_participants :
                        q.conversation_id = r.conversation_id /\ q.user_id = req[p].user
      ]_vars

====
